---- MODULE Spec2Model ----
(***************************************************************************)
(* State-machine model of homebridge-soma's BLE layer (lib/BleClient.js,   *)
(* latest revision): BleClient.request with its three guards, the scan     *)
(* controller, BlePeripheralDelegate connect/disconnect, the lazy service  *)
(* and characteristic discovery, and the retry wrapper of read / write /   *)
(* subscribe / readAll.                                                    *)
(*                                                                         *)
(* Scheduling.  Node runs one macrotask (timer, native event, application  *)
(* call) to completion and drains the promise continuations it caused      *)
(* before the next macrotask.  The continuation of the application's call  *)
(* is therefore modelled in small steps (CallStep...), and every macrotask *)
(* action is guarded by Quiet: no continuation is runnable.                *)
(*                                                                         *)
(* Scope.  One BleClient, one BlePeripheralDelegate on one native          *)
(* peripheral handle, one known service "s" with one known characteristic  *)
(* "c"; one application call chain at a time, next to the fire-and-forget  *)
(* calls the code itself makes (idle disconnect, continuous reconnect,     *)
(* search, stopSearch) and application disconnect().  noble (the native    *)
(* BLE binding) is the environment.                                        *)
(***************************************************************************)
EXTENDS Integers, Sequences, FiniteSets, TLC

\* client.maxRetry (params.retry, default 5); the model checks a smaller budget.
maxRetry == 1

\* The request records, by the caller that issued the request: the
\* application's call chain, search(), stopSearch(), a disconnect() nobody
\* awaits (application, idle timer), the reconnect of continuous mode.  A
\* caller issues its next request when its record is not in flight.
Slots == {"call", "start", "stop", "disc", "conn"}

\* BleError messages: 'no response in ..s', 'bluetooth disabled',
\* 'disconnected unexpectedly', 'cannot discover service/characteristic'.
BleErrors == {"timeout", "disabled", "disconnected", "notfound"}
\* Errors that are not BleError: a rejection of the native promise (Error),
\* RangeError (unknown key), SyntaxError (missing capability), TypeError.
OtherErrors == {"native", "range", "syntax", "type"}

ClientKinds == {"startScanning", "stopScanning"}
PeripheralKinds == {"discover peripheral", "connect", "disconnect",
                    "discoverAll", "discoverService", "discoverCharacteristic",
                    "read", "write", "subscribe"}
\* Native promises that noble settles on its own (not through an event the
\* model has an action for).
PrimitiveKinds == {"discoverAll", "discoverService", "discoverCharacteristic",
                   "read", "write", "subscribe"}

VARIABLES
  macOs,               \* client.macOs
  rssi,                \* client.rssi, the configured minimum RSSI
  state,               \* client._state
  scanning,            \* client.scanning
  startScanning,       \* client.startScanning
  stopScanning,        \* client.stopScanning
  scanTimer,           \* client.scanTimer is pending
  scanDuration,        \* client.scanDuration
  restart,             \* the 1s grace timer of the 'scanStop' handler is pending
  peripheral,          \* delegate._peripheral: "null" or a native handle
  listeners,           \* per native handle, the number of times the delegate's
                       \* 'connect'/'disconnect' listeners are registered on it
  pstate,              \* state of the native peripheral object noble holds
  connectionTimer,     \* delegate.connectionTimer is pending
  connectionDuration,  \* delegate.connectionDuration
  service,             \* serviceDelegate._service: "null", "fresh", "stale"
  characteristic,      \* characteristicDelegate._characteristic: same values
  props,               \* properties of the native characteristic
  reqs,                \* the request records
  call,                \* the application's call chain
  delegates,           \* client.delegates[id]: "d", the delegate of the model,
                       \* or "e", a delegate constructed for the id after it
  destroyed,           \* the application has called destroy() on the delegate
  requestId,           \* this.requestId of the client and of the delegate
  assigned,            \* per owner, the request ids assigned so far, in order
  chars,               \* properties of the native characteristics of a service
  ra,                  \* a call of BleServiceDelegate.readAll
  soma,                \* a call of getTrigger, _getShadeConfig or
                       \* setTriggerEnabled of SomaPeripheral
  buffer,              \* the bytes handed to a decode function
  parsed,              \* what the decode function last applied returned
  idle,                \* a delegate with overlapping connect() calls and its
                       \* idle-disconnect timers
  shades,              \* platform.shades and the probes of the platform
  values,              \* the position values of a Window Covering service
  emitted              \* what the last step did: 'disabled', 'disconnected',
                       \* 'scanStart' or 'scanStop' (with its tag),
                       \* 'deviceFound' (with its peripheral)
                       \* emitted, "stale": a native primitive invoked on a
                       \* handle of an earlier connection, "cancelConnect":
                       \* peripheral.cancelConnect() invoked

clientVars == <<macOs, rssi, state, scanning, startScanning, stopScanning, scanTimer,
                scanDuration, restart>>
delegateVars == <<peripheral, listeners, pstate, connectionTimer,
                  connectionDuration, service, characteristic, props>>
registryVars == <<delegates, destroyed>>
idVars == <<requestId, assigned>>
\* The state of the parts of the library that have a specification of their own.
readAllVars == <<chars, ra>>
somaVars == <<soma>>
decodeVars == <<buffer, parsed>>
timerVars == <<idle>>
platformVars == <<shades>>
serviceVars == <<values>>
appVars == <<timerVars, platformVars, serviceVars>>
libVars == <<idVars, readAllVars, somaVars, decodeVars, appVars>>
\* The state of the client and the delegate.
programVars == <<clientVars, delegateVars, registryVars, reqs, call, emitted>>
otherVars == <<registryVars, libVars>>
vars == <<clientVars, delegateVars, otherVars, reqs, call, emitted>>

\* get enabled () { return this._state === 'poweredOn' }
enabled == state = "poweredOn"

----------------------------------------------------------------------------
(* Request records.                                                        *)

EmptyReq ==
  [kind |-> "none", scope |-> "none", status |-> "none", error |-> "none",
   timer |-> "none", onDisabled |-> FALSE, onDisconnect |-> FALSE,
   promise |-> "none", periph |-> FALSE,
   evRequest |-> FALSE, evError |-> FALSE, evResponse |-> FALSE,
   found |-> FALSE, atIssue |-> FALSE, late |-> FALSE, nsettle |-> 0, first |-> "none",
   uncaught |-> FALSE]

\* What the caller of request() sees.
Outcome(q) == IF q.status = "resolved" THEN "resolved" ELSE q.error

Min(a, b) == IF a < b THEN a ELSE b

\* Variant of reject that lets a later rejection through.
rejectAlways(q, e) ==
  [q EXCEPT !.status = "rejected", !.error = e,
            !.late = (q.status # "pending"),
            !.nsettle = Min(2, q.nsettle + 1),
            !.first = IF q.status = "pending" THEN e ELSE q.first]

\* reject of the promise returned by request(): only the first settlement counts.
reject(q, e) ==
  IF q.status = "pending"
    THEN [q EXCEPT !.status = "rejected", !.error = e,
                   !.nsettle = q.nsettle + 1, !.first = e]
    ELSE [q EXCEPT !.late = TRUE]

\* resolve of the promise returned by request().
resolve(q) ==
  IF q.status = "pending"
    THEN [q EXCEPT !.status = "resolved",
                   !.nsettle = q.nsettle + 1, !.first = "resolved"]
    ELSE [q EXCEPT !.late = TRUE]

clearTimeout(q) == [q EXCEPT !.timer = IF q.timer = "armed" THEN "cleared" ELSE q.timer]

\* The timer callback, up to and including reject.
TimerCallback(q) ==
  reject([q EXCEPT !.timer = "fired", !.onDisabled = FALSE,
                   !.onDisconnect = FALSE,
                   !.uncaught = (q.scope = "peripheral" /\ ~q.periph)],
         "timeout")

\* Variant of onDisabled that leaves the 'disconnected' listener registered.
OnDisabledKeepsGuard(q) ==
  reject([clearTimeout(q) EXCEPT !.onDisabled = FALSE], "disabled")

\* function onDisabled (), a once-listener of the client's 'disabled'.
OnDisabled(q) ==
  reject([clearTimeout(q) EXCEPT !.onDisabled = FALSE, !.onDisconnect = FALSE],
         "disabled")

\* function onDisconnect (), a once-listener of the delegate's 'disconnected'.
OnDisconnect(q) ==
  reject([clearTimeout(q) EXCEPT !.onDisconnect = FALSE, !.onDisabled = FALSE],
         "disconnected")

\* Variant of the enabled check that forgets clearTimeout(timer).
NotEnabledKeepsTimer(q) ==
  reject([q EXCEPT !.evError = (q.scope = "client"),
                   !.onDisabled = FALSE, !.onDisconnect = FALSE,
                   !.atIssue = TRUE, !.promise = "orphan"],
         "disabled")

\* if (!this.enabled) { ... return reject(error) }: the native promise gets
\* no handlers.
NotEnabled(q) ==
  reject([clearTimeout(q) EXCEPT !.evError = (q.scope = "client"),
                                 !.onDisabled = FALSE, !.onDisconnect = FALSE,
                                 !.atIssue = TRUE, !.promise = "orphan"],
         "disabled")

\* .finally of the native promise.
Finally(q) ==
  [clearTimeout(q) EXCEPT !.onDisabled = FALSE, !.onDisconnect = FALSE]

\* .then(...).finally(...) of the native promise.
Then(q) ==
  Finally(resolve([q EXCEPT !.promise = "fulfilled",
                            !.evResponse = q.evResponse \/ (q.scope = "client")]))

\* .catch(...).finally(...) of the native promise.
Catch(q) ==
  Finally(reject([q EXCEPT !.promise = "rejected",
                           !.evError = q.evError \/ (q.scope = "client")],
                 "native"))

\* Variant of request that never registers onDisconnect.
NewRequestNoDisconnectGuard(kind, scope) ==
  [EmptyReq EXCEPT !.kind = kind, !.scope = scope, !.status = "pending",
                   !.periph = (scope = "peripheral" /\ peripheral # "null"),
                   !.timer = "armed", !.promise = "pending",
                   !.evRequest = TRUE,
                   !.onDisconnect = FALSE,
                   !.onDisabled = TRUE]

\* Variant of request that registers onDisabled for peripheral-scoped requests only.
NewRequestNoDisabledGuard(kind, scope) ==
  [EmptyReq EXCEPT !.kind = kind, !.scope = scope, !.status = "pending",
                   !.periph = (scope = "peripheral" /\ peripheral # "null"),
                   !.timer = "armed", !.promise = "pending",
                   !.evRequest = TRUE,
                   !.onDisconnect = (scope = "peripheral" /\ kind # "disconnect"),
                   !.onDisabled = (scope = "peripheral")]

\* BleClient.request up to the enabled check (for a peripheral-scoped request
\* preceded by the 'request' event of BlePeripheralDelegate.request).
NewRequest(kind, scope) ==
  [EmptyReq EXCEPT !.kind = kind, !.scope = scope, !.status = "pending",
                   !.periph = (scope = "peripheral" /\ peripheral # "null"),
                   !.timer = "armed", !.promise = "pending",
                   !.evRequest = TRUE,
                   !.onDisconnect = (scope = "peripheral" /\ kind # "disconnect"),
                   !.onDisabled = TRUE]

\* BleClient.request(request, promise): the record of the new request; en is
\* the value of this.enabled when request() runs.
request(kind, scope, en) ==
  IF ~en THEN NotEnabled(NewRequest(kind, scope))
         ELSE NewRequest(kind, scope)

\* A record may be reused once its request has settled; a native promise
\* still pending on it is then taken never to settle.
Free(rs, s) == rs[s].status # "pending"

\* Issue a request into record s.
Issue(rs, s, kind, scope) == [rs EXCEPT ![s] = request(kind, scope, enabled)]

\* Apply f to every record selected by the set of slots S.
Apply(rs, S, f(_)) == [s \in Slots |-> IF s \in S THEN f(rs[s]) ELSE rs[s]]

Pending(rs, kinds) ==
  {s \in Slots : rs[s].promise = "pending" /\ rs[s].kind \in kinds}

\* The native peripheral objects noble may hand out for the delegate's id:
\* the one the delegate holds and the one that replaces it.
Handles == {"h", "g"}
Other(x) == IF x = "h" THEN "g" ELSE "h"

\* removeAllListeners() on the native peripheral also removes the once-
\* listeners behind connectAsync / disconnectAsync: those promises never settle.
Dead(q) == [q EXCEPT !.promise = "dead"]
removeAllListeners(rs) == Apply(rs, Pending(rs, {"connect", "disconnect"}), Dead)

----------------------------------------------------------------------------
(* The application's call chain.                                           *)

IdleCall ==
  [op |-> "none", sKey |-> "s", cKey |-> "c", arg |-> 120, dur |-> 120,
   retry |-> 0, attempts |-> 0, stack |-> <<>>, sig |-> "idle",
   err |-> "none", req |-> FALSE, result |-> "none"]

\* A continuation of the call chain is ready to run.
Runnable ==
  \/ call.sig \in {"run", "throw"}
  \/ call.sig = "wait" /\ reqs["call"].status # "pending"

\* A request is complete when its promise has settled, the native promise is
\* no longer pending with handlers, and nobody awaits its outcome any more.
Complete(s) ==
  /\ reqs[s].status \in {"resolved", "rejected"}
  /\ reqs[s].promise # "pending"
  /\ ~(s = "call" /\ call.req)

\* Objects of finished work the program no longer refers to.
Garbage == call.sig = "done" \/ \E s \in Slots : Complete(s)

\* No promise continuation is pending: the next macrotask may run.
Quiet == ~Runnable /\ ~Garbage

----------------------------------------------------------------------------
(* Initial state: client and delegate constructed, adapter state not yet   *)
(* reported.                                                               *)

\* The owners of a request id counter.
Owners == {"client", "delegate"}

\* this.requestId = 0 in both constructors.
InitIds ==
  /\ requestId = [o \in Owners |-> 0]
  /\ assigned = [o \in Owners |-> <<>>]

\* The characteristic delegates of a service, in the order of
\* for (const key in this.characteristicDelegates).
Keys == <<"c1", "c2", "c3">>
KeySet == {Keys[i] : i \in 1..Len(Keys)}

\* No readAll() is running.
IdleReadAll ==
  [pc |-> "idle", pos |-> 0, map |-> [k \in KeySet |-> "absent"],
   reads |-> {}, errors |-> {}, outcome |-> [k \in KeySet |-> "none"]]

InitReadAll ==
  /\ chars = [k \in KeySet |-> {"read"}]
  /\ ra = IdleReadAll

\* No decode function has been applied.
NotParsed == [f |-> "none", threw |-> FALSE]

\* No operation of the SomaPeripheral is running.
IdleSoma ==
  [op |-> "none", arg |-> <<>>, enabled |-> FALSE, phase |-> 0, pc |-> "idle",
   log |-> <<>>, written |-> <<>>, edit |-> <<>>, response |-> <<>>,
   unheard |-> FALSE, result |-> NotParsed, error |-> "none"]

InitSoma == soma = IdleSoma

InitDecode ==
  /\ buffer = [of |-> "none", bytes |-> <<>>, records |-> <<>>]
  /\ parsed = NotParsed

\* Timer ids and calls of the delegate with overlapping calls.
Calls == {"a", "b", "auto"}

\* The delegate after construction: the handle attached, nothing running.
IdleTimers ==
  [peripheral |-> TRUE, state |-> "disconnected", connectionDuration |-> 120,
   connectionTimer |-> 0, timers |-> {}, made |-> 0,
   pc |-> [c \in Calls |-> "idle"], duration |-> [c \in Calls |-> 120]]

InitTimers == idle = IdleTimers

\* Device ids the platform sees.
DeviceIds == {"s1", "s2"}

\* this.shades = {}: no entry, no probe, no accessory.
NoShade ==
  [entry |-> "absent", whitelisted |-> TRUE, probing |-> 0, closing |-> 0,
   backoff |-> 0, accessories |-> 0, delegates |-> 0, during |-> FALSE]

InitShades == shades = [id \in DeviceIds |-> NoShade]

\* The Window Covering service of an accessory after construction.
NoValues ==
  [venetianMode |-> FALSE, targetPosition |-> 100, currentPosition |-> 100,
   closeUpwards |-> FALSE, targetCloseUpwards |-> FALSE, position |-> <<>>,
   timer |-> "none", resetTimer |-> FALSE, moving |-> FALSE,
   written |-> <<>>, request |-> [t |-> 100, c |-> FALSE], updated |-> FALSE,
   sets |-> 0]

InitValues == values = NoValues

InitApp == InitTimers /\ InitShades /\ InitValues

\* The client and the delegate after construction.
Constructed ==
  /\ macOs \in BOOLEAN
  /\ rssi \in {-100, -80}
  /\ state = "poweredOff"
  /\ scanning = FALSE
  /\ startScanning = FALSE
  /\ stopScanning = FALSE
  /\ scanTimer = FALSE
  /\ scanDuration \in {0, 30}
  /\ restart = FALSE
  /\ peripheral = "h"
  /\ listeners = [x \in Handles |-> IF x = "h" THEN 1 ELSE 0]
  /\ pstate = "disconnected"
  /\ connectionTimer = FALSE
  /\ connectionDuration = 120
  /\ service = "null"
  /\ characteristic = "null"
  /\ props \in {{"read", "write", "notify"}, {"write", "notify"}}
  /\ reqs = [s \in Slots |-> EmptyReq]
  /\ call = IdleCall
  /\ delegates = "d"
  /\ destroyed = FALSE
  /\ emitted = {}

Init ==
  Constructed /\ InitIds /\ InitReadAll /\ InitSoma /\ InitDecode /\ InitApp

----------------------------------------------------------------------------
(* Scan controller.                                                        *)

\* Variant of search that tests this.scanning only.
searchWhileStarting(rs, en) ==
  IF scanning
    THEN /\ reqs' = rs
         /\ UNCHANGED <<startScanning, scanTimer>>
    ELSE /\ startScanning' = TRUE
         /\ scanTimer' = FALSE
         /\ reqs' = [rs EXCEPT !["start"] = request("startScanning", "client", en)]

\* async search (): constrains startScanning', scanTimer', reqs' from rs; en
\* is the value of this.enabled when search() runs.
search(rs, en) ==
  IF scanning \/ startScanning
    THEN /\ reqs' = rs
         /\ UNCHANGED <<startScanning, scanTimer>>
    ELSE /\ startScanning' = TRUE
         /\ scanTimer' = FALSE
         /\ reqs' = [rs EXCEPT !["start"] = request("startScanning", "client", en)]

\* async stopSearch ()
stopSearch(rs) ==
  IF ~scanning \/ stopScanning
    THEN /\ reqs' = rs
         /\ UNCHANGED stopScanning
    ELSE /\ stopScanning' = TRUE
         /\ reqs' = Issue(rs, "stop", "stopScanning", "client")

\* noble 'stateChange' to poweredOn: emit 'enabled', search().
StateChangeOn ==
  /\ Quiet
  /\ state # "poweredOn"
  /\ state' = "poweredOn"
  /\ search(reqs, TRUE)
  /\ emitted' = {}
  /\ UNCHANGED <<otherVars, macOs, rssi, scanning, stopScanning, scanDuration, restart,
                 delegateVars, call>>

\* noble 'stateChange' to another state: emit 'disabled', clear the flags.
StateChangeOff ==
  /\ Quiet
  /\ state = "poweredOn"
  /\ state' = "poweredOff"
  /\ emitted' = {"disabled"}
  /\ reqs' = Apply(reqs, {s \in Slots : reqs[s].onDisabled}, OnDisabled)
  /\ scanning' = FALSE
  /\ startScanning' = FALSE
  /\ UNCHANGED <<otherVars, macOs, rssi, stopScanning, scanTimer, scanDuration, restart,
                 delegateVars, call>>

\* The application calls search().
AppSearch ==
  /\ Quiet
  /\ search(reqs, enabled)
  /\ emitted' = {}
  /\ UNCHANGED <<otherVars, macOs, rssi, state, scanning, stopScanning, scanDuration, restart,
                 delegateVars, call>>

\* The application calls stopSearch().
AppStopSearch ==
  /\ Quiet
  /\ stopSearch(reqs)
  /\ emitted' = {}
  /\ UNCHANGED <<otherVars, macOs, rssi, state, scanning, startScanning, scanTimer,
                 scanDuration, restart, delegateVars, call>>

\* this.emit('scanStart' | 'scanStop', tag)
ScanEvent(name, tag) ==
  IF name = "scanStart"
    THEN IF tag THEN "scanStart(true)" ELSE "scanStart(false)"
    ELSE IF tag THEN "scanStop(true)" ELSE "scanStop(false)"

\* noble 'scanStart' (this client's scan or another process's): the handler,
\* then the callbacks of the pending startScanningAsync() promises.
ScanStart ==
  /\ Quiet
  /\ enabled
  /\ IF scanning
       THEN /\ emitted' = {}
            /\ UNCHANGED <<scanning, scanTimer, startScanning>>
       ELSE /\ scanning' = TRUE
            /\ emitted' = {ScanEvent("scanStart", startScanning)}
            /\ scanTimer' = IF startScanning /\ scanDuration > 0
                              THEN TRUE ELSE scanTimer
            /\ startScanning' = FALSE
  /\ reqs' = Apply(reqs, Pending(reqs, {"startScanning"}), Then)
  /\ UNCHANGED <<otherVars, macOs, rssi, state, stopScanning, scanDuration, restart,
                 delegateVars, call>>

\* noble 'scanStop': the handler up to its await, then the callbacks of the
\* pending stopScanningAsync() promises.
ScanStop ==
  /\ Quiet
  /\ IF ~scanning
       THEN /\ emitted' = {}
            /\ UNCHANGED <<scanning, scanTimer, stopScanning, restart>>
       ELSE /\ scanning' = FALSE
            /\ emitted' = {ScanEvent("scanStop", stopScanning)}
            /\ scanTimer' = FALSE
            /\ stopScanning' = FALSE
            /\ restart' = IF ~stopScanning /\ scanDuration = 0
                            THEN TRUE ELSE restart
  /\ reqs' = Apply(reqs, Pending(reqs, {"stopScanning"}), Then)
  /\ UNCHANGED <<otherVars, macOs, rssi, state, startScanning, scanDuration,
                 delegateVars, call>>

\* The grace period of the 'scanStop' handler is over: search().
RestartSearch ==
  /\ Quiet
  /\ restart
  /\ restart' = FALSE
  /\ search(reqs, enabled)
  /\ emitted' = {}
  /\ UNCHANGED <<otherVars, macOs, rssi, state, scanning, stopScanning, scanDuration,
                 delegateVars, call>>

\* scanTimer fires: stopSearch().
ScanTimerFires ==
  /\ Quiet
  /\ scanTimer
  /\ scanTimer' = FALSE
  /\ stopSearch(reqs)
  /\ emitted' = {}
  /\ UNCHANGED <<otherVars, macOs, rssi, state, scanning, startScanning, scanDuration, restart,
                 delegateVars, call>>

----------------------------------------------------------------------------
(* Guards and native completions of requests.                              *)

\* Variant of the timer callback that cancels on every platform.
CancelsOnEveryPlatform(q) ==
  q.scope = "peripheral" /\ q.periph /\ pstate = "connecting"

\* The timer callback of request q calls peripheral.cancelConnect().
Cancels(q) ==
  q.scope = "peripheral" /\ q.periph /\ pstate = "connecting" /\ ~macOs

\* The timeout timer of request s fires; peripheral.cancelConnect() makes
\* noble emit 'connect' with an error, which rejects the pending
\* connectAsync() promises.
Timeout(s) ==
  /\ Quiet
  /\ reqs[s].timer = "armed"
  /\ LET rs == [reqs EXCEPT ![s] = TimerCallback(reqs[s])]
     IN /\ reqs' = IF Cancels(reqs[s])
                     THEN Apply(rs, Pending(rs, {"connect"}), Catch)
                     ELSE rs
        /\ emitted' = IF Cancels(reqs[s]) THEN {"cancelConnect"} ELSE {}
  /\ UNCHANGED <<otherVars, clientVars, delegateVars, call>>

WithFound(q, f) == [q EXCEPT !.found = f]

\* noble fulfils the native promise of a discover/read/write/subscribe request.
NativeFulfil(s, f) ==
  /\ Quiet
  /\ reqs[s].promise = "pending"
  /\ reqs[s].kind \in PrimitiveKinds
  /\ pstate = "connected"
  /\ reqs' = [reqs EXCEPT ![s] = Then(WithFound(reqs[s], f))]
  /\ emitted' = {}
  /\ UNCHANGED <<otherVars, clientVars, delegateVars, call>>

\* noble rejects the native promise of a request.
NativeReject(s) ==
  /\ Quiet
  /\ reqs[s].promise = "pending"
  /\ reqs[s].kind \in PrimitiveKinds \cup ClientKinds
  /\ reqs' = [reqs EXCEPT ![s] = Catch(reqs[s])]
  /\ emitted' = {}
  /\ UNCHANGED <<otherVars, clientVars, delegateVars, call>>

----------------------------------------------------------------------------
(* Native peripheral events and the delegate's handlers.                   *)

\* this._peripheral.removeAllListeners()
Off(l, x) == IF x = "null" THEN l ELSE [l EXCEPT ![x] = 0]
\* this._peripheral.on('connect', ...).on('disconnect', ...)
On(l, x) == IF x = "null" THEN l ELSE [l EXCEPT ![x] = @ + 1]

\* set peripheral (p): constrains peripheral', listeners', reqs' from rs.
setPeripheral(rs, x) ==
  IF x = peripheral
    THEN /\ reqs' = rs
         /\ UNCHANGED <<peripheral, listeners>>
    ELSE /\ peripheral' = x
         /\ listeners' = On(Off(listeners, peripheral), x)
         /\ reqs' = IF peripheral # "null" THEN removeAllListeners(rs) ELSE rs

\* async disconnect (): constrains peripheral', listeners', pstate', reqs'.
\* Returns through s the record a caller would await (0: nothing to await).
disconnect(rs, s) ==
  IF peripheral # "null" /\ pstate = "connected"
    THEN /\ Free(rs, s) \/ s = "call"
         /\ pstate' = "disconnecting"
         /\ reqs' = [rs EXCEPT ![s] = request("disconnect", "peripheral", enabled)]
         /\ UNCHANGED <<peripheral, listeners>>
    ELSE /\ setPeripheral(rs, "null")
         /\ UNCHANGED pstate

\* The application calls disconnect().
AppDisconnect ==
  /\ Quiet
  /\ disconnect(reqs, "disc")
  /\ emitted' = {}
  /\ UNCHANGED <<otherVars, clientVars, connectionTimer, connectionDuration, service,
                 characteristic, props, call>>

\* connectionTimer fires: disconnect().
IdleTimerFires ==
  /\ Quiet
  /\ connectionTimer
  /\ connectionTimer' = FALSE
  /\ disconnect(reqs, "disc")
  /\ emitted' = {}
  /\ UNCHANGED <<otherVars, clientVars, connectionDuration, service, characteristic,
                 props, call>>

\* The delegate's 'connect'/'disconnect' handlers are on the native object
\* that emits the event.
Attached == peripheral # "null" /\ listeners[peripheral] > 0

\* Variant that arms the idle timer whatever the duration.
ArmsIdleTimerAlways(d) == TRUE

\* if (this.connectionDuration !== 0): an idle timer is armed.
ArmsIdleTimer(d) == d # 0

\* Variant of the continuous-mode test that never reconnects.
ContinuousNever == FALSE

\* if (this.connectionDuration === 0): continuous mode.
Continuous == connectionDuration = 0

\* Native 'connect' without error: the delegate's handler, then the callbacks
\* of the pending connectAsync() promises.
NativeConnect ==
  /\ Quiet
  /\ enabled
  /\ pstate = "connecting"
  /\ pstate' = "connected"
  /\ connectionTimer' = IF Attached /\ ArmsIdleTimer(connectionDuration)
                          THEN TRUE ELSE connectionTimer
  /\ reqs' = Apply(reqs, Pending(reqs, {"connect"}), Then)
  /\ emitted' = {}
  /\ UNCHANGED <<otherVars, clientVars, peripheral, listeners, connectionDuration,
                 service, characteristic, props, call>>

\* Native 'connect' with an error: the handler returns at once, the pending
\* connectAsync() promises reject.
NativeConnectFail ==
  /\ Quiet
  /\ pstate = "connecting"
  /\ pstate' = "disconnected"
  /\ reqs' = Apply(reqs, Pending(reqs, {"connect"}), Catch)
  /\ emitted' = {}
  /\ UNCHANGED <<otherVars, clientVars, peripheral, listeners, connectionTimer,
                 connectionDuration, service, characteristic, props, call>>

Stale(h) == IF h = "null" THEN "null" ELSE "stale"

\* Native 'disconnect': the delegate's handler (when still attached), then the
\* callbacks of the pending disconnectAsync() promises.  Without the handler
\* the delegates keep their handles, which now belong to a closed connection.
NativeDisconnect ==
  /\ Quiet
  /\ pstate \in {"connected", "disconnecting"}
  /\ IF Attached
       THEN LET rs1 == Apply(reqs, {s \in Slots : reqs[s].onDisconnect},
                             OnDisconnect)
                reconnect == Continuous
                rs2 == IF reconnect
                         THEN Issue(rs1, "conn", "connect", "peripheral")
                         ELSE rs1
            IN /\ reconnect => Free(reqs, "conn")
               /\ connectionTimer' = FALSE
               /\ emitted' = {"disconnected"}
               /\ service' = "null"
               /\ characteristic' = "null"
               /\ pstate' = IF reconnect THEN "connecting" ELSE "disconnected"
               /\ reqs' = Apply(rs2, Pending(reqs, {"disconnect"}), Then)
       ELSE /\ pstate' = "disconnected"
            /\ service' = Stale(service)
            /\ characteristic' = Stale(characteristic)
            /\ emitted' = {}
            /\ UNCHANGED <<connectionTimer, reqs>>
  /\ UNCHANGED <<otherVars, clientVars, peripheral, listeners, connectionDuration, props,
                 call>>

\* The peripherals noble reports: connectable or not, with an RSSI below, at
\* or above the configured minimum.
RssiValues == {-110, -90, -80}
Peripherals == [connectable : BOOLEAN, rssi : RssiValues]

\* Variant: the RSSI of the peripheral is not compared with the minimum.
PassesFilterAnyRssi(p, min) == p.connectable

\* if (peripheral.connectable && peripheral.rssi >= this.rssi)
PassesFilter(p, min) == p.connectable /\ p.rssi >= min

\* this.emit('deviceFound', { ..., peripheral: peripheral })
DeviceFoundEvent(p) ==
  "deviceFound(" \o ToString(p.connectable) \o "," \o ToString(p.rssi) \o ")"

\* noble 'discover' while scanning.  For an id with a registered delegate
\* (own) the client routes the native object to the delegate ('_found'): the
\* delegate's setter, then the callbacks of the pending 'discover peripheral'
\* requests; then 'deviceFound' is emitted for a peripheral that passes the
\* filter.  noble reports the object the delegate holds (same) or another
\* object for the id, which is new: its state is 'disconnected', and the
\* services and characteristics the delegates hold are not its own.  The
\* delegate "e" is not part of the model.
Discover(own, same, p) ==
  /\ Quiet
  /\ enabled /\ scanning
  /\ IF own /\ delegates = "d"
       THEN LET x == IF peripheral = "null" THEN "h"
                     ELSE IF same THEN peripheral ELSE Other(peripheral)
                swap == peripheral # "null" /\ x # peripheral
            IN /\ setPeripheral(Apply(reqs, Pending(reqs, {"discover peripheral"}),
                                     Then), x)
               /\ pstate' = IF swap THEN "disconnected" ELSE pstate
               /\ service' = IF swap THEN Stale(service) ELSE service
               /\ characteristic' = IF swap THEN Stale(characteristic)
                                             ELSE characteristic
       ELSE UNCHANGED <<peripheral, listeners, reqs, pstate, service,
                        characteristic>>
  /\ emitted' = IF PassesFilter(p, rssi) THEN {DeviceFoundEvent(p)} ELSE {}
  /\ UNCHANGED <<otherVars, clientVars, connectionTimer, connectionDuration,
                 props, call>>

\* noble 'discover' for the delegate's own, connectable peripheral: the object
\* the delegate holds or held.
Found ==
  \E p \in {[connectable |-> TRUE, rssi |-> -80]} : Discover(TRUE, TRUE, p)

\* destroy (): the application releases the delegate.  Without a handle the
\* call throws a TypeError.
Destroy ==
  /\ Quiet
  /\ ~destroyed
  /\ destroyed' = TRUE
  /\ listeners' = Off(listeners, peripheral)
  /\ reqs' = IF peripheral # "null" THEN removeAllListeners(reqs) ELSE reqs
  /\ emitted' = {}
  /\ UNCHANGED <<libVars, delegates, clientVars, peripheral, pstate, connectionTimer,
                 connectionDuration, service, characteristic, props, call>>

\* The application constructs the next delegate for the id, after it has
\* released this one: this.client.delegates[this.id] = this.
NewDelegate ==
  /\ Quiet
  /\ destroyed /\ delegates = "d"
  /\ delegates' = "e"
  /\ emitted' = {}
  /\ UNCHANGED <<libVars, destroyed, clientVars, delegateVars, reqs, call>>

----------------------------------------------------------------------------
(* The call chain: read / write / subscribe / readAll / connect of         *)
(* BlePeripheralDelegate with the service and characteristic delegates     *)
(* below them.  call.stack holds the continuation labels of the async      *)
(* functions on the chain, innermost first; call.sig is "run" (continue at *)
(* the first label), "wait" (awaiting request call.req), "throw" (an       *)
(* exception call.err is unwinding) or "idle".                             *)

Top == Head(call.stack)
Rest == Tail(call.stack)
At(l) == ~Garbage /\ call.sig = "run" /\ call.stack # <<>> /\ Top = l
\* The awaited request has settled and the chain resumes at label l.
Resumed(l) == /\ ~Garbage /\ call.sig = "wait" /\ Top = l
              /\ reqs["call"].status # "pending"
Resolved == reqs["call"].status = "resolved"

Goto(c, stk) == [c EXCEPT !.stack = stk, !.sig = "run", !.req = FALSE]
Throw(c, e) == [c EXCEPT !.sig = "throw", !.err = e, !.req = FALSE]
Await(c, l) == [c EXCEPT !.stack = <<l>> \o Tail(c.stack), !.sig = "wait",
                         !.req = TRUE]
\* The rejection of the awaited request is thrown at the await.
Rethrow == call' = Throw(call, reqs["call"].error)

\* Issue a peripheral-scoped request and await it at label l.
IssueAwait(kind, l) ==
  /\ reqs' = Issue(reqs, "call", kind, "peripheral")
  /\ call' = Await(call, l)

Ops == {"read", "write", "subscribe", "readAll", "connect"}
\* The native primitive behind the call.
Primitive == IF call.op = "readAll" THEN "read" ELSE call.op
Capability == IF Primitive = "subscribe" THEN "notify" ELSE Primitive

\* canRead / canWrite / canNotify
can(p) == characteristic # "null" /\ p \in props

\* The application calls read, write, subscribe, readAll or connect(duration).
AppCall(op, sk, ck, d) ==
  /\ Quiet
  /\ call.sig = "idle"
  /\ op \in {"readAll", "connect"} => sk = "s" /\ ck = "c"
  /\ sk = "s" \/ ck = "c"
  /\ op # "connect" => d = 120
  /\ call' = [IdleCall EXCEPT !.op = op, !.sKey = sk, !.cKey = ck, !.arg = d,
                              !.sig = "run",
                              !.stack = IF op = "connect" THEN <<"connect0">>
                                                          ELSE <<"op0">>]
  /\ emitted' = {}
  /\ UNCHANGED <<otherVars, clientVars, delegateVars, reqs>>

\* try { await this.connect() ...: an attempt of read/write/subscribe/readAll begins.
Op0 ==
  /\ At("op0")
  /\ call' = [call EXCEPT !.attempts = call.attempts + 1,
                          !.stack = <<"connect0", "op1">>]
  /\ emitted' = {}
  /\ UNCHANGED <<otherVars, clientVars, delegateVars, reqs>>

\* connect(duration): clear the idle timer; without a native handle wait for
\* 'discover peripheral'.
Connect0 ==
  /\ At("connect0")
  /\ connectionTimer' = FALSE
  /\ LET c == [call EXCEPT !.dur = IF call.op = "connect" THEN call.arg
                                                          ELSE connectionDuration]
     IN IF peripheral = "null"
          THEN /\ reqs' = Issue(reqs, "call", "discover peripheral", "peripheral")
               /\ call' = Await(c, "connect1")
          ELSE /\ call' = Goto(c, <<"connect2">> \o Rest)
               /\ UNCHANGED reqs
  /\ emitted' = {}
  /\ UNCHANGED <<otherVars, clientVars, peripheral, listeners, pstate, connectionDuration,
                 service, characteristic, props>>

\* connect: after await this.request('discover peripheral').
Connect1 ==
  /\ Resumed("connect1")
  /\ IF Resolved THEN call' = Goto(call, <<"connect2">> \o Rest)
                 ELSE Rethrow
  /\ emitted' = {}
  /\ UNCHANGED <<otherVars, clientVars, delegateVars, reqs>>

\* connect: set the duration; when connected re-arm the idle timer and
\* return, otherwise issue the connect request (connectAsync()).
Connect2 ==
  /\ At("connect2")
  /\ IF peripheral = "null"
       THEN /\ call' = Throw(call, "type")
            /\ UNCHANGED <<connectionDuration, connectionTimer, pstate, reqs>>
       ELSE /\ connectionDuration' = call.dur
            /\ IF pstate = "connected"
                 THEN /\ connectionTimer' = ArmsIdleTimer(call.dur)
                      /\ call' = Goto(call, Rest)
                      /\ UNCHANGED <<pstate, reqs>>
                 ELSE /\ pstate' = "connecting"
                      /\ IssueAwait("connect", "connect3")
                      /\ UNCHANGED connectionTimer
  /\ emitted' = {}
  /\ UNCHANGED <<otherVars, clientVars, peripheral, listeners, service, characteristic,
                 props>>

\* A plain await of a request: return its response or throw its error.
\* connect3: connect request; sdisc... see below; chop3: macOS disconnect.
AwaitReturn ==
  /\ \/ Resumed("connect3")
     \/ Resumed("chop3")
  /\ IF Resolved THEN call' = Goto(call, Rest) ELSE Rethrow
  /\ emitted' = {}
  /\ UNCHANGED <<otherVars, clientVars, delegateVars, reqs>>

\* read/write/subscribe after connect(): look up the service delegate and
\* call its read/write/subscribe, which starts with discover().  subscribe
\* returns the delegate's promise without awaiting it: its try/catch is left.
Op1 ==
  /\ At("op1")
  /\ call.op \in {"read", "write", "subscribe"}
  /\ call' = IF call.sKey # "s" THEN Throw(call, "range")
             ELSE IF call.op = "subscribe"
               THEN Goto(call, <<"connect0", "sdisc1", "svcop1">>)
               ELSE Goto(call, <<"connect0", "sdisc1", "svcop1", "op2">>)
  /\ emitted' = {}
  /\ UNCHANGED <<otherVars, clientVars, delegateVars, reqs>>

\* readAll after connect(): discoverAllServicesAndCharacteristics.
OpReadAll1 ==
  /\ At("op1")
  /\ call.op = "readAll"
  /\ IF peripheral = "null"
       THEN /\ call' = Throw(call, "type")
            /\ UNCHANGED reqs
       ELSE IssueAwait("discoverAll", "ra1")
  /\ emitted' = {}
  /\ UNCHANGED <<otherVars, clientVars, delegateVars>>

\* BleServiceDelegate.discover after connect(): nothing to do with a handle,
\* otherwise discoverService.
Sdisc1 ==
  /\ At("sdisc1")
  /\ IF service # "null"
       THEN /\ call' = Goto(call, Rest)
            /\ UNCHANGED reqs
       ELSE IF peripheral = "null"
         THEN /\ call' = Throw(call, "type")
              /\ UNCHANGED reqs
         ELSE IssueAwait("discoverService", "sdisc2")
  /\ emitted' = {}
  /\ UNCHANGED <<otherVars, clientVars, delegateVars>>

\* discover: after the discoverService request.
Sdisc2 ==
  /\ Resumed("sdisc2")
  /\ IF ~Resolved
       THEN Rethrow /\ UNCHANGED service
       ELSE IF peripheral = "null"
         THEN call' = Throw(call, "type") /\ UNCHANGED service
         ELSE IF reqs["call"].found
           THEN service' = "fresh" /\ call' = Goto(call, Rest)
           ELSE call' = Throw(call, "notfound") /\ UNCHANGED service
  /\ emitted' = {}
  /\ UNCHANGED <<otherVars, clientVars, peripheral, listeners, pstate, connectionTimer,
                 connectionDuration, characteristic, props, reqs>>

\* BleServiceDelegate.read/write/subscribe after discover(): look up the
\* characteristic delegate and return its read/write/subscribe, which starts
\* with discover().
Svcop1 ==
  /\ At("svcop1")
  /\ call' = IF call.cKey # "c" THEN Throw(call, "range")
                                ELSE Goto(call, <<"cdisc0", "chop1">> \o Rest)
  /\ emitted' = {}
  /\ UNCHANGED <<otherVars, clientVars, delegateVars, reqs>>

\* BleCharacteristicDelegate.discover: nothing to do with a handle, otherwise
\* discoverCharacteristic on the service handle.
Cdisc0 ==
  /\ At("cdisc0")
  /\ IF characteristic # "null"
       THEN /\ call' = Goto(call, Rest)
            /\ emitted' = {}
            /\ UNCHANGED reqs
       ELSE IF service = "null"
         THEN /\ call' = Throw(call, "type")
              /\ emitted' = {}
              /\ UNCHANGED reqs
         ELSE /\ IssueAwait("discoverCharacteristic", "cdisc1")
              /\ emitted' = IF service = "stale" THEN {"stale"} ELSE {}
  /\ UNCHANGED <<otherVars, clientVars, delegateVars>>

\* discover: after the discoverCharacteristic request.
Cdisc1 ==
  /\ Resumed("cdisc1")
  /\ IF ~Resolved
       THEN Rethrow /\ UNCHANGED characteristic
       ELSE IF service = "null"
         THEN call' = Throw(call, "type") /\ UNCHANGED characteristic
         ELSE IF reqs["call"].found
           THEN characteristic' = service /\ call' = Goto(call, Rest)
           ELSE call' = Throw(call, "notfound") /\ UNCHANGED characteristic
  /\ emitted' = {}
  /\ UNCHANGED <<otherVars, clientVars, peripheral, listeners, pstate, connectionTimer,
                 connectionDuration, service, props, reqs>>

\* BleCharacteristicDelegate.read/write/subscribe after discover(): check the
\* capability, then issue the request on the characteristic handle.
Chop1 ==
  /\ At("chop1")
  /\ IF ~can(Capability)
       THEN /\ call' = Throw(call, "syntax")
            /\ emitted' = {}
            /\ UNCHANGED reqs
       ELSE /\ IssueAwait(Primitive, "chop2")
            /\ emitted' = IF characteristic = "stale" THEN {"stale"} ELSE {}
  /\ UNCHANGED <<otherVars, clientVars, delegateVars>>

\* read/write: after the request; on macOS disconnect() follows.  subscribe
\* returns the response.
Chop2 ==
  /\ Resumed("chop2")
  /\ IF ~Resolved
       THEN Rethrow /\ UNCHANGED <<peripheral, listeners, pstate, reqs>>
       ELSE IF Primitive = "subscribe" \/ ~macOs
         THEN /\ call' = Goto(call, Rest)
              /\ UNCHANGED <<peripheral, listeners, pstate, reqs>>
         ELSE /\ disconnect(reqs, "call")
              /\ call' = IF peripheral # "null" /\ pstate = "connected"
                           THEN Await(call, "chop3")
                           ELSE Goto(call, Rest)
  /\ emitted' = {}
  /\ UNCHANGED <<otherVars, clientVars, connectionTimer, connectionDuration, service,
                 characteristic, props>>

\* readAll: after the discoverAll request the delegates of the discovered
\* services and characteristics get their handles; then the service
\* delegate's readAll, which starts with discover().
ReadAll1 ==
  /\ Resumed("ra1")
  /\ IF ~Resolved
       THEN Rethrow /\ UNCHANGED <<service, characteristic>>
       ELSE IF peripheral = "null"
         THEN call' = Throw(call, "type") /\ UNCHANGED <<service, characteristic>>
         ELSE /\ service' = IF reqs["call"].found THEN "fresh" ELSE service
              /\ characteristic' = IF reqs["call"].found THEN "fresh"
                                                           ELSE characteristic
              /\ call' = Goto(call, <<"connect0", "sdisc1", "sra1", "ra2">>)
  /\ emitted' = {}
  /\ UNCHANGED <<otherVars, clientVars, peripheral, listeners, pstate, connectionTimer,
                 connectionDuration, props, reqs>>

\* BleServiceDelegate.readAll: after discover(), the characteristic's discover().
Sra1 ==
  /\ At("sra1")
  /\ call' = Goto(call, <<"cdisc0", "sra2">> \o Rest)
  /\ emitted' = {}
  /\ UNCHANGED <<otherVars, clientVars, delegateVars, reqs>>

\* BleServiceDelegate.readAll: read the characteristic if it can be read.
Sra2 ==
  /\ At("sra2")
  /\ call' = IF can("read") THEN Goto(call, <<"cdisc0", "chop1", "sra3">> \o Rest)
                            ELSE Goto(call, Rest)
  /\ emitted' = {}
  /\ UNCHANGED <<otherVars, clientVars, delegateVars, reqs>>

\* The value is stored in the map and the map returned (sra3: by the service
\* delegate, ra2: by the peripheral delegate; op2: return result).
Return ==
  /\ At("sra3") \/ At("ra2") \/ At("op2")
  /\ call' = Goto(call, Rest)
  /\ emitted' = {}
  /\ UNCHANGED <<otherVars, clientVars, delegateVars, reqs>>

\* Variants of the retry condition: retry <= maxRetry; any error retried;
\* a timeout not retried.
RetryableOffByOne(c) == c.err \in BleErrors /\ c.retry <= maxRetry
RetryableButTimeout(c) == c.err \in BleErrors \ {"timeout"} /\ c.retry < maxRetry
RetryableAnyError(c) == c.retry < maxRetry

\* error instanceof BleError && retry < this.client.maxRetry
Retryable(c) == c.err \in BleErrors /\ c.retry < maxRetry

\* Labels inside the try of read/write/readAll (and of subscribe up to its return).
OpFrames == {"op1", "op2", "ra1"}
\* Labels inside the try of BleServiceDelegate.readAll's loop body.
LoopFrames == {"sra1", "sra2", "sra3"}

\* An exception unwinds one frame: the catch of the operation retries or
\* rethrows, the catch in readAll's loop reports and goes on, any other
\* frame is left.
Unwind ==
  /\ ~Garbage
  /\ call.sig = "throw"
  /\ call.stack # <<>>
  /\ call' = IF Top \in OpFrames
               THEN IF Retryable(call)
                      THEN [call EXCEPT !.retry = call.retry + 1,
                                        !.stack = <<"op0">>, !.sig = "run",
                                        !.err = "none"]
                      ELSE [call EXCEPT !.stack = <<>>]
             ELSE IF Top \in LoopFrames
               THEN [call EXCEPT !.stack = Rest, !.sig = "run", !.err = "none"]
               ELSE [call EXCEPT !.stack = Rest]
  /\ emitted' = {}
  /\ UNCHANGED <<otherVars, clientVars, delegateVars, reqs>>

\* The promise of the application's call settles.
Done ==
  /\ ~Garbage
  /\ call.sig \in {"run", "throw"}
  /\ call.stack = <<>>
  /\ call' = [call EXCEPT !.sig = "done",
                          !.result = IF call.sig = "run" THEN "ok" ELSE call.err]
  /\ emitted' = {}
  /\ UNCHANGED <<otherVars, clientVars, delegateVars, reqs>>

\* The records of complete requests and of a settled call are dropped.
Collect ==
  /\ Garbage
  /\ reqs' = [s \in Slots |-> IF Complete(s) THEN EmptyReq ELSE reqs[s]]
  /\ call' = IF call.sig = "done" THEN IdleCall ELSE call
  /\ emitted' = {}
  /\ UNCHANGED <<otherVars, clientVars, delegateVars>>

CallStep ==
  \/ Op0 \/ Connect0 \/ Connect1 \/ Connect2 \/ AwaitReturn \/ Op1
  \/ OpReadAll1 \/ Sdisc1 \/ Sdisc2 \/ Svcop1 \/ Cdisc0 \/ Cdisc1 \/ Chop1
  \/ Chop2 \/ ReadAll1 \/ Sra1 \/ Sra2 \/ Return \/ Unwind \/ Done

\* The request core, as every specification below has it.
RequestStep ==
  \/ \E s \in Slots : Timeout(s)
  \/ \E s \in Slots, f \in BOOLEAN : NativeFulfil(s, f)
  \/ \E s \in Slots : NativeReject(s)
  \/ Collect

\* The peripheral delegate: native events, timers and the application's calls;
\* connect() is called with the default idle duration of 120 s.
DelegateStep ==
  \/ AppDisconnect \/ IdleTimerFires
  \/ NativeConnect \/ NativeConnectFail \/ NativeDisconnect \/ Found
  \/ \E op \in Ops, sk \in {"s", "x"}, ck \in {"c", "x"}, d \in {120} :
       AppCall(op, sk, ck, d)
  \/ CallStep

\* The delegate under an adapter that is switched on and off; the scan runs
\* in continuous mode and, once started, is not stopped.
Next ==
  \/ StateChangeOn \/ StateChangeOff \/ ScanStart
  \/ RequestStep
  \/ DelegateStep

InitDelegate ==
  Init /\ rssi = -100 /\ scanDuration = 0 /\ props = {"write", "notify"}

Spec == InitDelegate /\ [][Next]_vars

\* The scan controller: the application does not use the delegate.
NextScan ==
  \/ StateChangeOn \/ StateChangeOff \/ AppSearch \/ AppStopSearch
  \/ ScanStart \/ ScanStop \/ RestartSearch \/ ScanTimerFires
  \/ \E s \in Slots : Timeout(s)
  \/ \E s \in Slots : NativeReject(s)
  \/ \E own \in BOOLEAN, p \in Peripherals : Discover(own, TRUE, p)
  \/ Collect

SpecScan == Init /\ [][NextScan]_vars

\* The connection state machine alone: the application calls connect() with
\* an idle duration of 0 (continuous mode) or 120 s, and disconnect().
NextConnect ==
  \/ StateChangeOn \/ StateChangeOff \/ ScanStart
  \/ \E s \in Slots : Timeout(s)
  \/ Collect
  \/ AppDisconnect \/ IdleTimerFires
  \/ NativeConnect \/ NativeConnectFail \/ NativeDisconnect \/ Found
  \/ \E d \in {0, 120} : AppCall("connect", "s", "c", d)
  \/ Connect0 \/ Connect1 \/ Connect2 \/ AwaitReturn \/ Unwind \/ Done

SpecConnect == InitDelegate /\ [][NextConnect]_vars

\* The connection state machine with rediscovery: noble may report another
\* native object for the id, and the application releases the delegate and
\* constructs the next one.
NextRoute ==
  \/ StateChangeOn \/ StateChangeOff \/ ScanStart
  \/ \E s \in Slots : Timeout(s)
  \/ Collect
  \/ AppDisconnect \/ IdleTimerFires
  \/ NativeConnect \/ NativeConnectFail \/ NativeDisconnect
  \/ \E same \in BOOLEAN :
       Discover(TRUE, same, [connectable |-> TRUE, rssi |-> -80])
  \/ Destroy \/ NewDelegate
  \/ AppCall("connect", "s", "c", 120)
  \/ Connect0 \/ Connect1 \/ Connect2 \/ AwaitReturn \/ Unwind \/ Done

SpecRoute == InitDelegate /\ [][NextRoute]_vars

----------------------------------------------------------------------------
(* Request ids.  BleClient.request numbers the client-scoped requests from *)
(* the client's counter, BlePeripheralDelegate.request numbers every       *)
(* request of the delegate (each attempt of a retried operation, each      *)
(* discovery step) from the delegate's own counter, before anything else   *)
(* happens to the request.                                                 *)

\* The number of requests per owner the model follows.
maxRequests == 10

\* Variant: the id is the counter's value, the counter is not advanced.
SameId(n) == n

\* ++this.requestId
NextId(n) == n + 1

\* Variant: the delegate numbers its requests from the client's counter.
CounterOfClient(o) == "client"

\* request.id = ++this.requestId: which counter a request of owner o advances.
CounterOf(o) == o

\* A request of owner o gets its id.
AssignId(o) ==
  LET id == NextId(requestId[CounterOf(o)])
  IN /\ requestId' = [requestId EXCEPT ![CounterOf(o)] = id]
     /\ assigned' = [assigned EXCEPT ![o] = Append(@, id)]

\* BleClient.request with a client-scoped request (startScanning,
\* stopScanning, reset): the id is assigned before the adapter state is tested.
ClientRequest ==
  /\ Len(assigned["client"]) < maxRequests
  /\ AssignId("client")
  /\ UNCHANGED <<programVars, appVars, readAllVars, somaVars, decodeVars>>

\* BlePeripheralDelegate.request: the id is assigned before the request is
\* handed to BleClient.request, which leaves the client's counter alone.
DelegateRequest ==
  /\ Len(assigned["delegate"]) < maxRequests
  /\ AssignId("delegate")
  /\ UNCHANGED <<programVars, appVars, readAllVars, somaVars, decodeVars>>

NextIds == ClientRequest \/ DelegateRequest

\* One client, one delegate, any interleaving of their requests.
InitLibrary == Constructed /\ ~macOs /\ rssi = -100 /\ scanDuration = 30
                           /\ props = {"read", "write", "notify"}

InitRequests ==
  InitLibrary /\ InitIds /\ InitReadAll /\ InitSoma /\ InitDecode /\ InitApp

SpecIds == InitRequests /\ [][NextIds]_vars

----------------------------------------------------------------------------
(* BleServiceDelegate.readAll on a service whose characteristic delegates  *)
(* have their native handles (after discoverAllServicesAndCharacteristics):*)
(* the loop over the characteristic delegates, with the read request       *)
(* reduced to its outcome.                                                 *)

PropSets == {{"read"}, {"write"}, {"read", "write", "notify"}}

\* What becomes of a read request: the buffer decodes, the decode function
\* throws on the buffer, the request is rejected with a BleError (timeout,
\* disabled, disconnected), the native promise rejects with an Error.
Outcomes == {"decoded", "malformed", "rejected", "failed"}

\* Variant of canRead that ignores the properties.
canReadAlways(k) == TRUE

\* get canRead (): the delegate has its handle.
canRead(k) == "read" \in chars[k]

\* new BleResponse(request, buffer): parsedValue = bufferToHex(response).
BleResponse(o) == "hex"

\* BlePeripheralDelegate.request: try { response.parsedValue =
\* request.characteristicDelegate.f(response.buffer) } catch (error) { ... }
Parsed(o) == IF o = "decoded" THEN "value" ELSE BleResponse(o)

\* if (response.parsedValue != null) { map[key] = response.parsedValue }
Store(map, k, v) == IF v # "null" THEN [map EXCEPT ![k] = v] ELSE map

\* The application calls readAll().
ReadAllBegin ==
  /\ ra.pc = "idle"
  /\ ra' = [IdleReadAll EXCEPT !.pc = "loop", !.pos = 1]
  /\ UNCHANGED <<programVars, appVars, idVars, chars, somaVars, decodeVars>>

\* One turn of the loop up to the read request: discover() of the service
\* and of the characteristic return at once; if (delegate.canRead)
\* delegate.read(), which tests canRead again (SyntaxError) and invokes
\* this.characteristic.readAsync().
ReadAllTurn ==
  /\ ra.pc = "loop" /\ ra.pos <= Len(Keys)
  /\ LET k == Keys[ra.pos]
     IN ra' = IF canRead(k)
                THEN IF canRead(k)
                       THEN [ra EXCEPT !.pc = "read", !.reads = @ \cup {k}]
                       ELSE [ra EXCEPT !.pos = @ + 1, !.errors = @ \cup {k}]
                ELSE [ra EXCEPT !.pos = @ + 1]
  /\ UNCHANGED <<programVars, appVars, idVars, chars, somaVars, decodeVars>>

\* The read request settles: the response's value goes into the map, or the
\* catch of the loop reports the error (emitError: not a BleError).
ReadAllResponse(o) ==
  /\ ra.pc = "read"
  /\ LET k == Keys[ra.pos]
         r == [ra EXCEPT !.pc = "loop", !.pos = @ + 1, !.outcome[k] = o]
     IN ra' = IF o \in {"decoded", "malformed"}
                THEN [r EXCEPT !.map = Store(ra.map, k, Parsed(o)),
                               !.errors = IF o = "malformed" THEN @ \cup {k}
                                                             ELSE @]
                ELSE [r EXCEPT !.errors = IF o = "failed" THEN @ \cup {k}
                                                          ELSE @]
  /\ UNCHANGED <<programVars, appVars, idVars, chars, somaVars, decodeVars>>

\* return map
ReadAllReturn ==
  /\ ra.pc = "loop" /\ ra.pos > Len(Keys)
  /\ ra' = [ra EXCEPT !.pc = "done"]
  /\ UNCHANGED <<programVars, appVars, idVars, chars, somaVars, decodeVars>>

NextReadAll ==
  \/ ReadAllBegin \/ ReadAllTurn
  \/ \E o \in Outcomes : ReadAllResponse(o)
  \/ ReadAllReturn

\* A service with three characteristics of any capabilities.
InitService ==
  /\ InitLibrary /\ InitIds
  /\ chars \in [KeySet -> PropSets]
  /\ ra = IdleReadAll
  /\ InitSoma /\ InitDecode /\ InitApp

SpecReadAll == InitService /\ [][NextReadAll]_vars

----------------------------------------------------------------------------
(* The decode functions of SomaClient.  A Buffer is a sequence of bytes;   *)
(* offset i of the Buffer is element i + 1 of the sequence.  A read beyond *)
(* the end of the Buffer throws a RangeError, which leaves the decode      *)
(* function.                                                               *)

RECURSIVE BitAnd(_, _)
\* x & y on non-negative integers.
BitAnd(x, y) ==
  IF x = 0 \/ y = 0 THEN 0
  ELSE (x % 2) * (y % 2) + 2 * BitAnd(x \div 2, y \div 2)

\* The read of width bytes at offset is within the Buffer.
Fits(b, offset, width) == offset >= 0 /\ offset + width <= Len(b)

readUInt8(b, offset) == b[offset + 1]

\* readInt8: two's complement.
readInt8(b, offset) ==
  IF b[offset + 1] >= 128 THEN b[offset + 1] - 256 ELSE b[offset + 1]

readUInt16LE(b, offset) == b[offset + 1] + 256 * b[offset + 2]

readUInt32LE(b, offset) ==
  b[offset + 1] + 256 * b[offset + 2] + 65536 * b[offset + 3]
  + 16777216 * b[offset + 4]

\* readInt32LE: two's complement.
readInt32LE(b, offset) ==
  b[offset + 1] + 256 * b[offset + 2] + 65536 * b[offset + 3]
  + 16777216 * (IF b[offset + 4] >= 128 THEN b[offset + 4] - 256
                                        ELSE b[offset + 4])

\* buffer.slice(start)
slice(b, start) ==
  IF start >= Len(b) THEN <<>> ELSE SubSeq(b, start + 1, Len(b))

HexDigits ==
  <<"0", "1", "2", "3", "4", "5", "6", "7",
    "8", "9", "A", "B", "C", "D", "E", "F">>

\* toHex(value): '0x' and two upper case hexadecimal digits.
toHex(value) ==
  "0x" \o HexDigits[((value \div 16) % 16) + 1] \o HexDigits[(value % 16) + 1]

\* What a decode function that threw leaves behind.
Threw(f) == [f |-> f, threw |-> TRUE]

\* new Date(seconds * 1000).toISOString().slice(0, -5), the text
\* YYYY-MM-DDTHH:MM:SS: the date is kept as the number of the day since the
\* epoch, the time as its hour, minute and second.
toISOString(seconds) ==
  [day |-> seconds \div 86400, h |-> (seconds \div 3600) % 24,
   m |-> (seconds \div 60) % 60, s |-> seconds % 60]

\* function parseDate (buffer, offset = 0)
parseDate(b, offset) == toISOString(readUInt32LE(b, offset))

\* parseDate(...).slice(0, -3): the text without its seconds.
Minutes(d) == [day |-> d.day, h |-> d.h, m |-> d.m]

\* The index of the first 0 byte of s, 0 if there is none.
IndexOfNul(s) ==
  IF \E i \in 1..Len(s) : s[i] = 0
    THEN CHOOSE i \in 1..Len(s) : s[i] = 0 /\ \A j \in 1..(i - 1) : s[j] # 0
    ELSE 0

RECURSIVE trim(_)
\* s.trim() on the bytes of the text.
trim(s) ==
  IF s = <<>> THEN s
  ELSE IF Head(s) = 32 THEN trim(Tail(s))
  ELSE IF s[Len(s)] = 32 THEN trim(SubSeq(s, 1, Len(s) - 1))
  ELSE s

\* function parseCString (buffer): s.slice(0, s.indexOf('\0')) takes the
\* text before the first 0 byte, and all but the last character when there
\* is none (indexOf returns -1); a trailing '0' after a character that is
\* neither a digit nor a space is dropped.
parseCString(b) ==
  LET i == IndexOfNul(b)
      cut == IF i = 0 THEN SubSeq(b, 1, Len(b) - 1) ELSE SubSeq(b, 1, i - 1)
      s == trim(cut)
      n == Len(s)
  IN IF n >= 2 /\ s[n] = 48 /\ s[n - 1] \notin ((48..57) \cup {32})
       THEN SubSeq(s, 1, n - 1)
       ELSE s

\* Variant of the position scaling that leaves the raw byte.
Unscaled(p) == p

\* result.currentPosition *= 2; result.currentPosition -= 100
Scaled(p) == p * 2 - 100

\* function parseManufacturerData (buffer), on the manufacturer data of an
\* advertisement: the company id in bytes 0 and 1, then the payload.
parseManufacturerData(b) ==
  IF ~Fits(b, 5, 1) THEN Threw("parseManufacturerData")
  ELSE LET battery == readUInt8(b, 3)
           flag == BitAnd(battery, 128) # 0
       IN [f |-> "parseManufacturerData", threw |-> FALSE,
           advDataProtocol |-> readUInt8(b, 2),
           battery |-> IF flag THEN BitAnd(battery, 127) ELSE battery,
           venetianMode |-> flag,
           currentPosition |-> IF flag THEN Scaled(readUInt8(b, 4))
                                       ELSE readUInt8(b, 4),
           targetPosition |-> IF flag THEN Scaled(readUInt8(b, 5))
                                      ELSE readUInt8(b, 5),
           displayName |-> parseCString(slice(b, 6))]

\* The days of parseTrigger, in the order of its tests, with their bits.
DayBits ==
  <<[day |-> "Mon", bit |-> 2], [day |-> "Tue", bit |-> 4],
    [day |-> "Wed", bit |-> 8], [day |-> "Thu", bit |-> 16],
    [day |-> "Fri", bit |-> 32], [day |-> "Sat", bit |-> 64],
    [day |-> "Sun", bit |-> 1]>>

\* Variant of the test of a day's bit: every day is listed.
AnyBit(weekdays, bit) == TRUE

\* (weekdays & bit) !== 0
HasBit(weekdays, bit) == BitAnd(weekdays, bit) # 0

RECURSIVE PushDays(_, _)
\* if ((weekdays & 0x02) !== 0) days.push('Mon') ... for the days from the
\* i-th on.
PushDays(weekdays, i) ==
  IF i > Len(DayBits) THEN <<>>
  ELSE (IF HasBit(weekdays, DayBits[i].bit) THEN <<DayBits[i].day>> ELSE <<>>)
       \o PushDays(weekdays, i + 1)

\* The words result.trigger starts with: 'Every Day', or days.join(' ').
days(weekdays) ==
  IF BitAnd(weekdays, 127) = 127 THEN <<"Every Day">>
  ELSE PushDays(weekdays, 1)

\* new Date(seconds * 1000).toISOString().slice(12, 16), the text H:MM with
\* the last digit of the hour.
HourMinute(seconds) ==
  <<((seconds \div 3600) % 24) % 10, (seconds \div 60) % 60>>

\* What parseTrigger appends to the days: the kind of the trigger and its
\* value, from the flags and the first four bytes.
when(b, offset, flags) ==
  IF BitAnd(flags, 4) # 0
    THEN LET sunOffset == readInt32LE(b, offset)
         IN [kind |-> IF BitAnd(flags, 2) # 0 THEN "at Sunset"
                                              ELSE "at Sunrise",
             sign |-> IF sunOffset < 0 THEN "-"
                      ELSE IF sunOffset > 0 THEN "+" ELSE "",
             value |-> IF sunOffset < 0 THEN HourMinute(-sunOffset)
                       ELSE IF sunOffset > 0 THEN HourMinute(sunOffset)
                       ELSE <<>>]
  ELSE IF BitAnd(flags, 2) # 0
    THEN LET lightlevel == readInt32LE(b, offset)
         IN [kind |-> IF lightlevel > 0 THEN "when Light Level >"
                                        ELSE "when Light Level <",
             sign |-> "",
             value |-> IF lightlevel > 0 THEN <<lightlevel>>
                                         ELSE <<-lightlevel>>]
  ELSE LET d == parseDate(b, offset)
       IN [kind |-> "at", sign |-> "", value |-> <<d.h, d.m>>]

\* function parseTrigger (buffer, offset = 0).  result.trigger, a text, is
\* kept as its parts: the words of the days, then the kind, sign and value.
parseTrigger(b, offset) ==
  LET flags == readUInt8(b, offset + 6)
      weekdays == readUInt8(b, offset + 4)
      w == when(b, offset, flags)
  IN [days |-> days(weekdays), kind |-> w.kind, sign |-> w.sign,
      value |-> w.value,
      position |-> readUInt8(b, offset + 5),
      morningMode |-> BitAnd(flags, 128) # 0,
      enabled |-> BitAnd(flags, 1) # 0]

\* motorTriggerCommandCodes
motorTriggerCommandCodes(command) ==
  CASE command = 19 -> "add"
    [] command = 35 -> "remove"
    [] command = 51 -> "read"
    [] command = 67 -> "edit"
    [] command = 99 -> "clearAll"
    [] OTHER -> toHex(command)

\* motorTriggerStatusCodes
motorTriggerStatusCodes(status) ==
  CASE status = 48 -> "success"
    [] status = 240 -> "failed"
    [] OTHER -> toHex(status)

\* The decode function of Motor Trigger Request.  The fields Object.assign
\* copies from parseTrigger are kept together in trigger.
MotorTriggerRequest(b) ==
  IF ~Fits(b, 1, 2) THEN Threw("MotorTriggerRequest")
  ELSE LET command == readUInt8(b, 0)
       IN IF command \in {19, 67}
            THEN IF ~Fits(b, 3, 7) THEN Threw("MotorTriggerRequest")
                 ELSE [f |-> "MotorTriggerRequest", threw |-> FALSE,
                       command |-> motorTriggerCommandCodes(command),
                       id |-> readUInt16LE(b, 1),
                       trigger |-> parseTrigger(b, 3)]
            ELSE [f |-> "MotorTriggerRequest", threw |-> FALSE,
                  command |-> motorTriggerCommandCodes(command),
                  id |-> readUInt16LE(b, 1)]

\* The decode function of Motor Trigger Response.
MotorTriggerResponse(b) ==
  IF ~Fits(b, 1, 1) THEN Threw("MotorTriggerResponse")
  ELSE LET status == readUInt8(b, 0)
           command == readUInt8(b, 1)
       IN IF status = 48 /\ command = 51
            THEN IF ~Fits(b, 4, 7) THEN Threw("MotorTriggerResponse")
                 ELSE [f |-> "MotorTriggerResponse", threw |-> FALSE,
                       status |-> motorTriggerStatusCodes(status),
                       command |-> motorTriggerCommandCodes(command),
                       id |-> readUInt16LE(b, 2),
                       trigger |-> parseTrigger(b, 4)]
            ELSE [f |-> "MotorTriggerResponse", threw |-> FALSE,
                  status |-> motorTriggerStatusCodes(status),
                  command |-> motorTriggerCommandCodes(command)]

\* shadeConfigCommands: the tags the decode function knows.
shadeConfigCommands ==
  [motorSpeed |-> 1, localTimeOffset |-> 6, bootSeq |-> 12,
   sunriseSunset |-> 23, query |-> 255]

\* const result = {}: a property that is not set is the empty sequence, a
\* property that is set the sequence of its value.
EmptyConfig ==
  [f |-> "ShadeConfig", threw |-> FALSE, motorSpeed |-> <<>>,
   localTimeOffset |-> <<>>, bootSeq |-> <<>>, sunrise |-> <<>>,
   sunset |-> <<>>]

\* Variant of the advance that does not skip the value.
NoSkip(offset, length) == offset

\* offset += length
Advance(offset, length) == offset + length

\* The body of the switch on the tag of a record whose value is at offset.
Record(b, command, length, offset, result) ==
  CASE command = shadeConfigCommands.motorSpeed /\ length = 1 ->
         IF ~Fits(b, offset, 1) THEN Threw("ShadeConfig")
         ELSE [result EXCEPT !.motorSpeed = <<readUInt8(b, offset)>>]
    [] command = shadeConfigCommands.localTimeOffset /\ length = 1 ->
         IF ~Fits(b, offset, 1) THEN Threw("ShadeConfig")
         ELSE [result EXCEPT
                 !.localTimeOffset = <<readInt8(b, offset) * (-60)>>]
    [] command = shadeConfigCommands.bootSeq /\ length = 4 ->
         IF ~Fits(b, offset, 4) THEN Threw("ShadeConfig")
         ELSE [result EXCEPT !.bootSeq = <<readUInt32LE(b, offset)>>]
    [] command = shadeConfigCommands.sunriseSunset /\ length = 8 ->
         IF ~Fits(b, offset, 8) THEN Threw("ShadeConfig")
         ELSE [result EXCEPT
                 !.sunrise = <<Minutes(parseDate(b, offset))>>,
                 !.sunset = <<Minutes(parseDate(b, offset + 4))>>]
    [] OTHER -> result

RECURSIVE Records(_, _, _, _)
\* for (let offset = 2; offset < length;) { ... }, from offset on.
Records(b, length, offset, result) ==
  IF ~(offset < length) THEN result
  ELSE IF ~Fits(b, offset, 2) THEN Threw("ShadeConfig")
  ELSE LET r == Record(b, readUInt8(b, offset), readUInt8(b, offset + 1),
                       offset + 2, result)
       IN IF r.threw THEN r
          ELSE Records(b, length,
                       Advance(offset + 2, readUInt8(b, offset + 1)), r)

\* The decode function of Shade Config.
ShadeConfig(b) ==
  IF ~Fits(b, 0, 2) THEN Threw("ShadeConfig")
  ELSE IF readUInt8(b, 0) = shadeConfigCommands.query
    THEN Records(b, readUInt8(b, 1), 2, EmptyConfig)
    ELSE EmptyConfig

----------------------------------------------------------------------------
(* The decode functions applied to the bytes the program hands them: the   *)
(* manufacturer data of an advertisement to parseManufacturerData, the     *)
(* value of a characteristic to the decode function of that characteristic.*)

\* The most records in a Shade Config frame.
MaxRecords == 3

\* Fill of the 17-byte trigger frames: Buffer.alloc(17, 0x37).
Fill == <<55, 55, 55, 55, 55, 55, 55>>

\* Manufacturer data: company id 0x0370, protocol, battery, the two
\* positions, the name; and one that is cut short.
ManufacturerData ==
  {<<112, 3, v, bat, cur, tgt>> \o name :
     v \in {1, 3}, bat \in {10, 138, 100, 228, 127, 255},
     cur \in {0, 50, 100}, tgt \in {0, 100},
     name \in {<<>>, <<83, 48, 0, 55>>}}
  \cup {<<112, 3, 1, 10, 0>>}

\* The first four bytes of a trigger record: a time of day (07:30:32), a
\* positive and a negative offset or light level, zero.
Timestamps == {<<0, 0, 0, 0>>, <<152, 105, 0, 0>>, <<16, 14, 0, 0>>,
               <<240, 241, 255, 255>>}

\* The trigger records: timestamp, weekdays, position, flags.  A time of
\* day is below 2^31.
TriggerRecords(masks, flagset) ==
  {ts \o <<wd, pos, fl>> :
     ts \in {t \in Timestamps : t[4] < 128}, wd \in masks, pos \in {0, 100},
     fl \in {x \in flagset : BitAnd(x, 6) = 0}}
  \cup {ts \o <<wd, 50, fl>> :
          ts \in Timestamps, wd \in {0, 62},
          fl \in {x \in flagset : BitAnd(x, 6) # 0}}

\* Values of Motor Trigger Response: a trigger that was read, with any
\* weekday mask; a failure; the answer to another command.
TriggerResponses ==
  {<<48, 51, 2, 1>> \o t \o <<55, 55, 55, 55, 55, 55>> :
     t \in TriggerRecords(0..255, {0, 1, 128, 2, 4, 6, 135})}
  \cup {<<240, 51>>, <<48, 67>>, <<48>>, <<48, 51, 1, 0, 0>>}

\* Values of Motor Trigger Request.
TriggerRequests ==
  {<<c, 2, 1>> \o t \o Fill :
     c \in {19, 67}, t \in TriggerRecords({0, 127, 85}, {0, 129, 3, 5})}
  \cup {<<c, 1, 0>> \o Fill \o Fill : c \in {51, 35, 7}}
  \cup {<<67, 1, 0, 0>>}

\* The records of a Shade Config frame: recognized tags with their width,
\* recognized tags with another length, tags the decode function does not
\* know (one of them with a value that reads as records).
ConfigRecords ==
  {<<1, 1, 5>>, <<6, 1, 255>>, <<12, 4, 1, 2, 0, 0>>,
   <<23, 8, 152, 105, 0, 0, 16, 14, 1, 0>>,
   <<1, 2, 5, 6>>, <<12, 1, 9>>,
   <<2, 1, 1>>, <<5, 6, 1, 1, 7, 6, 1, 2>>, <<24, 0>>}

RECURSIVE Concat(_)
Concat(recs) == IF recs = <<>> THEN <<>> ELSE Head(recs) \o Concat(Tail(recs))

\* The frame of the records: the query tag, the length of what follows.
Frame(recs) == <<255, Len(Concat(recs))>> \o Concat(recs)

RecordLists == UNION {[1..n -> ConfigRecords] : n \in 0..MaxRecords}

\* The bytes and where they come from; for a Shade Config frame, the
\* records the peripheral put into it.
Inputs ==
  {[of |-> "manufacturerData", bytes |-> b, records |-> <<>>] :
     b \in ManufacturerData}
  \cup {[of |-> "motorTriggerResponse", bytes |-> b, records |-> <<>>] :
          b \in TriggerResponses}
  \cup {[of |-> "motorTriggerRequest", bytes |-> b, records |-> <<>>] :
          b \in TriggerRequests}
  \cup {[of |-> "shadeConfig", bytes |-> Frame(recs), records |-> recs] :
          recs \in RecordLists}
  \cup {[of |-> "shadeConfig", bytes |-> b, records |-> <<>>] :
          b \in {<<1, 1, 5>>, <<255>>}}

\* this.on('deviceFound', ...): device.data = parseManufacturerData(...)
ShadeFound ==
  /\ buffer.of = "manufacturerData"
  /\ parsed' = parseManufacturerData(buffer.bytes)
  /\ UNCHANGED <<programVars, appVars, idVars, readAllVars, somaVars, buffer>>

\* response.parsedValue = request.characteristicDelegate.f(response.buffer)
\* for the characteristic the value is of.
Decode(key) ==
  /\ buffer.of = key
  /\ parsed' = CASE key = "motorTriggerRequest" ->
                      MotorTriggerRequest(buffer.bytes)
                 [] key = "motorTriggerResponse" ->
                      MotorTriggerResponse(buffer.bytes)
                 [] key = "shadeConfig" -> ShadeConfig(buffer.bytes)
  /\ UNCHANGED <<programVars, appVars, idVars, readAllVars, somaVars, buffer>>

NextDecode ==
  \/ ShadeFound
  \/ \E key \in {"motorTriggerRequest", "motorTriggerResponse", "shadeConfig"} :
       Decode(key)

\* Any of the inputs, nothing decoded yet.
InitInputs ==
  /\ InitLibrary /\ InitIds /\ InitReadAll /\ InitSoma /\ InitApp
  /\ buffer \in Inputs
  /\ parsed = NotParsed

SpecDecode == InitInputs /\ [][NextDecode]_vars

----------------------------------------------------------------------------
(* The operations of SomaPeripheral that write a request and wait for the  *)
(* notification with the answer: getTrigger, _getShadeConfig, and          *)
(* setTriggerEnabled, which calls getTrigger.  subscribe(), write() and    *)
(* notification() of the delegate are reduced to how they settle.          *)

\* How a step settles: it resolves, or it throws a BleError (timeout,
\* disconnected) or another error.
Settlements == {"ok", "timeout", "disconnected", "RangeError"}

\* Variant of await that goes on whatever the promise did.
awaitAnyway(o, next) == next

\* await: a rejected promise throws out of the async function.
await(o, next) == IF o = "ok" THEN next ELSE "failed"

\* The step after a step of getTrigger and _getShadeConfig.
NextStep(pc) ==
  CASE pc = "subscribe" -> "write"
    [] pc = "write" -> "notification"
    [] pc = "notification" -> "done"
    [] pc = "edit" -> "subscribe"

\* The frame getTrigger writes: the read command and the id in a Buffer of
\* 17 bytes 0x37.
ReadFrame(id) == <<51, id % 256, id \div 256>> \o Fill \o Fill

\* commands.unshift(shadeConfigCommands.query, commands.length & 0xFF)
QueryFrame(commands) ==
  <<shadeConfigCommands.query, BitAnd(Len(commands), 255)>> \o commands

\* The frame of the write step of the running operation.
RequestFrame(c) ==
  IF c.op = "_getShadeConfig" THEN QueryFrame(c.arg) ELSE ReadFrame(c.arg[1])

\* new BleNotification(serviceKey, key, buffer, parsedValue), parsedValue
\* being undefined (here: the record of a throw) when f threw.
BleNotification(op, b) ==
  [buffer |-> b,
   parsedValue |-> IF op = "_getShadeConfig" THEN ShadeConfig(b)
                                             ELSE MotorTriggerResponse(b)]

\* return (await this.notification(...)).response[0].parsedValue
Returned(n) == n.parsedValue

\* flags |= 0x01, flags &= ~0x01
SetEnabled(flags, en) ==
  flags - BitAnd(flags, 1) + (IF en THEN 1 ELSE 0)

\* setTriggerEnabled from the return of getTrigger to its write: the edit
\* frame from response.buffer; it throws when response has no buffer (a
\* TypeError) or a buffer too short for the reads.
EditFrame(id, en, response) ==
  IF "buffer" \notin DOMAIN response \/ ~Fits(response.buffer, 4, 7)
    THEN [threw |-> TRUE, bytes |-> <<>>]
    ELSE LET b == response.buffer
         IN [threw |-> FALSE,
             bytes |-> <<67, id % 256, id \div 256>>
                       \o SubSeq(b, 5, 8)
                       \o <<readUInt8(b, 8), readUInt8(b, 9),
                            SetEnabled(readUInt8(b, 10), en)>>
                       \o Fill]

\* What setTriggerEnabled returns: (await this.getTrigger(id)).parsedValue
Final(v) == IF "parsedValue" \in DOMAIN v THEN v.parsedValue ELSE NotParsed

\* The application calls getTrigger(id), _getShadeConfig(commands) or
\* setTriggerEnabled(id, enabled): the call runs up to its first await.
SomaCall(op, arg, en) ==
  /\ soma.pc = "idle"
  /\ soma' = [IdleSoma EXCEPT !.op = op, !.arg = arg, !.enabled = en,
                              !.phase = 1, !.pc = "subscribe",
                              !.log = <<"subscribe">>]
  /\ UNCHANGED <<programVars, appVars, idVars, readAllVars, decodeVars>>

\* subscribe() or write() settles, or notification() throws: the operation
\* goes on to its next step or throws.
Settle(o) ==
  /\ soma.pc \in {"subscribe", "write", "notification", "edit"}
  /\ soma.pc = "notification" => o # "ok"
  /\ LET next == await(o, NextStep(soma.pc))
         settled == soma.pc \o (IF o = "ok" THEN " ok" ELSE " failed")
     IN soma' =
          IF next = "failed"
            THEN [soma EXCEPT !.pc = "failed", !.error = o,
                              !.log = Append(@, settled)]
          ELSE IF next = "write"
            THEN [soma EXCEPT !.pc = next, !.written = RequestFrame(soma),
                              !.log = @ \o <<settled, next>>]
          ELSE IF soma.pc = "edit"
            THEN [soma EXCEPT !.pc = next, !.phase = 2, !.log = <<next>>]
          ELSE [soma EXCEPT !.pc = next, !.log = @ \o <<settled, next>>]
  /\ UNCHANGED <<programVars, appVars, idVars, readAllVars, decodeVars>>

\* The notifications the peripheral answers an operation with.
Answers(op) ==
  IF op = "_getShadeConfig"
    THEN {Frame(recs) : recs \in [1..2 -> {<<1, 1, 5>>, <<2, 1, 1>>}]}
    ELSE {<<48, 51, 1, 0>> \o t \o <<55, 55, 55, 55, 55, 55>> :
            t \in TriggerRecords({62}, {0, 129, 5})}
         \cup {<<240, 51>>, <<48, 51, 1>>}

AllAnswers == Answers("_getShadeConfig") \cup Answers("getTrigger")

\* The peripheral notifies the value b of the response characteristic while
\* notification() waits for it: the operation returns, and
\* setTriggerEnabled goes on to write its edit frame, or to return.
Notification(b) ==
  /\ soma.pc = "notification"
  /\ b \in Answers(soma.op)
  /\ LET v == Returned(BleNotification(soma.op, b))
         c == [soma EXCEPT !.log = Append(@, "notification ok"),
                           !.response = IF soma.phase = 1 THEN b ELSE @]
         e == EditFrame(soma.arg[1], soma.enabled, v)
     IN soma' =
          IF soma.op # "setTriggerEnabled"
            THEN [c EXCEPT !.pc = "done", !.result = v]
          ELSE IF soma.phase = 2
            THEN [c EXCEPT !.pc = "done", !.result = Final(v)]
          ELSE IF e.threw
            THEN [c EXCEPT !.pc = "failed", !.error = "TypeError"]
          ELSE [c EXCEPT !.pc = "edit", !.edit = e.bytes]
  /\ UNCHANGED <<programVars, appVars, idVars, readAllVars, decodeVars>>

\* The peripheral notifies the value b after the write has been issued and
\* before notification() has registered its listener (events.once): the
\* 'data' listener of the characteristic delegate emits the event of the
\* characteristic, which nobody listens to.
EarlyNotification(b) ==
  /\ soma.pc = "write"
  /\ b \in Answers(soma.op)
  /\ soma' = [soma EXCEPT !.unheard = TRUE]
  /\ UNCHANGED <<programVars, appVars, idVars, readAllVars, decodeVars>>

\* The caller has the result, or the error.
SomaReturn ==
  /\ soma.pc \in {"done", "failed"}
  /\ soma' = IdleSoma
  /\ UNCHANGED <<programVars, appVars, idVars, readAllVars, decodeVars>>

NextSoma ==
  \/ \E id \in {1, 258} : SomaCall("getTrigger", <<id>>, FALSE)
  \/ \E commands \in {<<>>, <<1>>, <<6, 12>>} :
       SomaCall("_getShadeConfig", commands, FALSE)
  \/ \E id \in {1, 258}, en \in BOOLEAN :
       SomaCall("setTriggerEnabled", <<id>>, en)
  \/ \E o \in Settlements : Settle(o)
  \/ \E b \in AllAnswers : Notification(b)
  \/ \E b \in AllAnswers : EarlyNotification(b)
  \/ SomaReturn

InitPeripheral ==
  InitLibrary /\ InitIds /\ InitReadAll /\ InitSoma /\ InitDecode /\ InitApp

SpecSoma == InitPeripheral /\ [][NextSoma]_vars

----------------------------------------------------------------------------
(* Properties of BleClient.request.                                        *)

Settled(q) == q.status \in {"resolved", "rejected"}

\* C1: the promise returned by request() settles exactly once: the caller
\* sees one outcome, the first, whatever arrives later (timeout, 'disabled',
\* 'disconnected', late native fulfilment or rejection); and a request that
\* has not settled still has its timeout timer, so it is going to settle.
C1_SettlesOnce ==
  \A s \in Slots :
    /\ reqs[s].nsettle <= 1
    /\ Settled(reqs[s]) => reqs[s].nsettle = 1 /\ reqs[s].first = Outcome(reqs[s])
    /\ reqs[s].status = "pending" => reqs[s].nsettle = 0 /\ reqs[s].timer = "armed"

\* A request rejected by its timeout whose native promise was fulfilled later.
C1_LateSuccess ==
  \E s \in Slots :
    /\ reqs[s].late /\ reqs[s].promise = "fulfilled"
    /\ reqs[s].status = "rejected" /\ reqs[s].error = "timeout"

\* C2: once request() has settled, by whatever path, its timer has fired or
\* been cleared and neither onDisabled nor onDisconnect is still registered.
C2_GuardsReleased ==
  \A s \in Slots :
    Settled(reqs[s]) =>
      /\ reqs[s].timer \in {"fired", "cleared"}
      /\ ~reqs[s].onDisabled
      /\ ~reqs[s].onDisconnect

\* A peripheral-scoped request that carried all three guards and was
\* rejected by the 'disabled' event.
C2_RejectedByDisabled ==
  \E s \in Slots :
    /\ reqs[s].scope = "peripheral" /\ reqs[s].kind # "disconnect"
    /\ reqs[s].status = "rejected" /\ reqs[s].error = "disabled"
    /\ ~reqs[s].atIssue

\* C3: after the native peripheral has disconnected the service and the
\* characteristic delegate have no native handle, and no native primitive is
\* ever invoked on a handle obtained in an earlier connection.
C3_NoHandleSurvivesDisconnect ==
  /\ pstate = "disconnected" => service = "null" /\ characteristic = "null"
  /\ "stale" \notin emitted

\* C4: read, write and readAll make at most maxRetry + 1 attempts; the retry
\* counter grows by one per failed attempt, and a BleError reaches the caller
\* only from the attempt made with the counter at maxRetry.
C4_BoundedRetry ==
  call.op \in {"read", "write", "readAll"} =>
    /\ call.retry <= maxRetry
    /\ call.attempts <= maxRetry + 1
    /\ call.attempts \in {call.retry, call.retry + 1}
    /\ call.sig = "done" /\ call.result \in BleErrors =>
         call.retry = maxRetry /\ call.attempts = maxRetry + 1

\* A call that used up its budget and failed with a BleError.
C4_BudgetExhausted ==
  /\ call.op \in {"read", "write", "readAll"}
  /\ call.sig = "done" /\ call.result \in BleErrors
  /\ call.attempts = maxRetry + 1

ProgrammingErrors == {"range", "syntax"}

\* C5 as stated: a read, write or subscribe that fails with a programming
\* error has made exactly one attempt and never incremented its counter.
C5_ExactlyOneAttempt ==
  /\ call.op \in {"read", "write", "subscribe"}
  /\ call.sig = "done" /\ call.result \in ProgrammingErrors
  => call.attempts = 1 /\ call.retry = 0

\* C5 amended: the attempt in which a programming error is raised is the
\* last one: the error unwinds to the caller unchanged, no attempt follows
\* and the retry counter stays as it is.
C5_NotRetried ==
  [][ /\ call.op \in {"read", "write", "subscribe"}
      /\ call.sig = "throw" /\ call.err \in ProgrammingErrors
      => /\ call'.retry = call.retry /\ call'.attempts = call.attempts
         /\ \/ call'.sig = "throw" /\ call'.err = call.err
            \/ call'.sig = "done" /\ call'.result = call.err ]_vars

\* A read of a characteristic without the read capability has failed.
C5_CapabilityMissing ==
  call.op = "read" /\ call.sig = "done" /\ call.result = "syntax"

\* C6: the adapter-unavailable error is never retried.
C6_DisabledNotRetried ==
  [][ call.sig = "throw" /\ call.err = "disabled" =>
        call'.retry = call.retry /\ call'.sig \in {"throw", "done"} ]_vars

C8_DisabledRejectsInFlight ==
  [][ "disabled" \in emitted' =>
        \A s \in Slots :
          reqs[s].status = "pending" =>
            reqs'[s].status = "rejected" /\ reqs'[s].error = "disabled" ]_vars

\* 'disabled' has just rejected a client-scoped and a peripheral-scoped request.
C8_BothScopesRejected ==
  /\ "disabled" \in emitted
  /\ \E s, t \in Slots :
       /\ reqs[s].scope = "client" /\ reqs[t].scope = "peripheral"
       /\ reqs[s].status = "rejected" /\ reqs[s].error = "disabled"
       /\ reqs[t].status = "rejected" /\ reqs[t].error = "disabled"
       /\ ~reqs[s].atIssue /\ ~reqs[t].atIssue

\* C9: when the delegate emits 'disconnected', every peripheral-scoped
\* request in flight other than 'disconnect' is rejected with 'disconnected
\* unexpectedly'; a 'disconnect' request in flight is not rejected by it.
C9_DisconnectedRejectsInFlight ==
  [][ "disconnected" \in emitted' =>
        \A s \in Slots :
          reqs[s].status = "pending" /\ reqs[s].scope = "peripheral" =>
            IF reqs[s].kind # "disconnect"
              THEN reqs'[s].status = "rejected" /\ reqs'[s].error = "disconnected"
              ELSE reqs'[s].status # "rejected" ]_vars

\* 'disconnected' has just rejected the call chain's request while the
\* disconnect request that caused it resolved.
C9_RejectedAndResolved ==
  /\ "disconnected" \in emitted
  /\ reqs["call"].status = "rejected" /\ reqs["call"].error = "disconnected"
  /\ reqs["disc"].kind = "disconnect" /\ reqs["disc"].status = "resolved"

\* C10: for every client-scoped request that has failed the client has
\* emitted 'error'.
C10_ClientErrorEmitted ==
  \A s \in Slots :
    reqs[s].scope = "client" /\ reqs[s].status = "rejected" => reqs[s].evError

----------------------------------------------------------------------------
(* Late completions, connect and the idle timer.                           *)

\* C11: for a request rejected by its timeout the client emits neither
\* 'response' nor 'error', however the native operation completes later.
C11_LateCompletionDiscarded ==
  \A s \in Slots :
    reqs[s].status = "rejected" /\ reqs[s].error = "timeout" =>
      ~reqs[s].evResponse /\ ~reqs[s].evError

\* A request of the given kind is issued in this step and is in flight.
Issued(s, kind) ==
  /\ reqs'[s].kind = kind /\ reqs'[s].status = "pending"
  /\ reqs[s].status # "pending"

\* The connect requests in flight.
ConnectsInFlight ==
  {s \in Slots : reqs[s].kind = "connect" /\ reqs[s].status = "pending"}

\* C12: at most one connect request of the delegate is in flight, and
\* connectAsync() is never invoked for a new connect request while an
\* earlier native connect attempt of the peripheral is still in flight.
C12_SingleConnectAttempt ==
  [][ /\ \A s \in Slots : Issued(s, "connect") => pstate # "connecting"
      /\ Cardinality(ConnectsInFlight') <= 1 ]_vars

\* The application's connect() has just returned normally.
ConnectReturned ==
  call.op = "connect" /\ call.sig = "done" /\ call.result = "ok"

\* C13: no connect request is issued while the peripheral is connected
\* (the 'disconnect' handler issues its own once the connection is gone); when
\* connect(idleDuration) returns, the peripheral is connected, the delegate's
\* duration is idleDuration and an idle timer is pending iff idleDuration is
\* not 0, whether the peripheral was connected already or has just connected.
C13_IdleTimerReplaced ==
  [][ /\ \A s \in Slots :
           Issued(s, "connect") =>
             pstate # "connected" \/ "disconnected" \in emitted'
      /\ ConnectReturned' =>
           /\ pstate' = "connected"
           /\ connectionDuration' = call'.arg
           /\ connectionTimer' = (call'.arg # 0) ]_vars

\* connect(0) has returned on a peripheral that was connected already: no
\* request was issued and no idle timer is pending.
C13_ConnectedNoTimer ==
  /\ ConnectReturned /\ call.arg = 0
  /\ reqs["call"].kind = "none"
  /\ ~connectionTimer

\* A connect request is issued by the 'disconnect' handler in this step.
Reconnected ==
  /\ reqs["conn"].status # "pending"
  /\ reqs'["conn"].kind = "connect"
  /\ reqs'["conn"].status = "pending" \/ reqs'["conn"].atIssue

\* C14: when the delegate handles a native 'disconnect' (it emits
\* 'disconnected'), the idle timer is cancelled and the handles are null; in
\* continuous mode a new connect request is issued in the same handler, with
\* a non-zero idle duration no connect request is issued.
C14_ContinuousReconnect ==
  [][ "disconnected" \in emitted' =>
        /\ ~connectionTimer'
        /\ service' = "null" /\ characteristic' = "null"
        /\ IF connectionDuration = 0
             THEN Reconnected /\ pstate' = "connecting"
             ELSE /\ pstate' = "disconnected"
                  /\ \A s \in Slots : ~Issued(s, "connect") ]_vars

\* The handler has just run in continuous mode: the reconnect is in flight.
C14_ReconnectInFlight ==
  /\ "disconnected" \in emitted
  /\ connectionDuration = 0
  /\ reqs["conn"].kind = "connect" /\ reqs["conn"].status = "pending"
  /\ pstate = "connecting"

----------------------------------------------------------------------------
(* Retry of subscribe and write.                                           *)

\* C15: subscribe fails towards its caller with a timeout or an unexpected
\* disconnect only after the retry budget is exhausted.
C15_SubscribeRetried ==
  /\ call.op = "subscribe" /\ call.sig = "done"
  /\ call.result \in {"timeout", "disconnected"}
  => call.retry = maxRetry

----------------------------------------------------------------------------
(* Scan controller.                                                        *)

\* A request is issued into record s in this step; flag is the controller's
\* flag that search() / stopSearch() sets when it issues its request.
NewScanRequest(s, flag) ==
  \/ flag' /\ ~flag
  \/ reqs'[s].status = "pending" /\ reqs[s].status # "pending"
  \/ reqs'[s].atIssue /\ ~reqs[s].atIssue

\* C17: a start-scan request is issued only when the controller is neither
\* scanning nor starting, a stop-scan request only when it is scanning and
\* not stopping, and never while the earlier one is still in flight.
C17_SingleScanRequest ==
  [][ /\ NewScanRequest("start", startScanning) =>
           /\ ~scanning /\ ~startScanning
           /\ reqs["start"].status # "pending"
      /\ NewScanRequest("stop", stopScanning) =>
           /\ scanning /\ ~stopScanning
           /\ reqs["stop"].status # "pending" ]_vars

\* A start-scan request is in flight: a call of search() now is a no-op.
C17_StartInFlight ==
  /\ startScanning /\ ~scanning
  /\ reqs["start"].kind = "startScanning" /\ reqs["start"].status = "pending"

\* The native operation behind this client's request in record s is outstanding.
Ours(s) == reqs[s].promise = "pending"

\* C18: 'scanStart' is tagged true iff a startScanning of this client is
\* outstanding when the scan starts, 'scanStop' is tagged true iff a
\* stopScanning of this client is outstanding when the scan stops.
C18_ScanEventsTagged ==
  [][ /\ \A tag \in BOOLEAN :
           ScanEvent("scanStart", tag) \in emitted' => (tag <=> Ours("start"))
      /\ \A tag \in BOOLEAN :
           ScanEvent("scanStop", tag) \in emitted' => (tag <=> Ours("stop")) ]_vars

\* The client handles a native scanStop in this step (it emits 'scanStop').
ScanStopped == emitted' \cap {"scanStop(true)", "scanStop(false)"} # {}

\* C19: in continuous mode a scan stop that no stopScanning of this client
\* is behind schedules the restart, and when the grace period is over with
\* the adapter enabled and the scan not yet running again, a start-scan
\* request is issued unless one is in flight already.
C19_ContinuousScanResumes ==
  [][ /\ ScanStopped /\ scanDuration = 0 /\ ~Ours("stop") => restart'
      /\ restart /\ ~restart' /\ enabled /\ ~scanning =>
           \/ NewScanRequest("start", startScanning)
           \/ reqs["start"].status = "pending" ]_vars

\* C20: 'deviceFound' is emitted for a native discovery event only if the
\* peripheral is connectable and its RSSI is at least the configured minimum;
\* with a minimum of -80 a peripheral reporting -90 raises no 'deviceFound'.
C20_DeviceFoundFiltered ==
  \A p \in Peripherals :
    DeviceFoundEvent(p) \in emitted => p.connectable /\ p.rssi >= rssi

\* 'deviceFound' was emitted for a connectable peripheral whose RSSI equals
\* the configured minimum of -80.
C20_FoundAtMinimum ==
  /\ rssi = -80
  /\ DeviceFoundEvent([connectable |-> TRUE, rssi |-> -80]) \in emitted

\* A request is in flight: not settled, its native promise pending with its
\* callbacks.
InFlight(s) == reqs[s].status = "pending" /\ reqs[s].promise = "pending"

\* C21: a discovery event routed to the delegate with another native object
\* than the one it holds makes that object the delegate's handle, with the
\* delegate's listeners once on it and on no other object; when the delegate
\* held an object before, every request in flight stays in flight.
C21_RoutingKeepsRequests ==
  [][ peripheral' # "null" /\ peripheral' # peripheral =>
        /\ listeners'[peripheral'] = 1
        /\ \A x \in Handles \ {peripheral'} : listeners'[x] = 0
        /\ peripheral # "null" =>
             \A s \in Slots : InFlight(s) => InFlight(s)' ]_vars

\* C22: once the application has released the delegate with destroy(), the
\* registry no longer maps the id to it (so that no discovery event is routed
\* to it) and it has no listeners on any native object.
C22_ReleasedDelegateGone ==
  destroyed => /\ delegates # "d"
               /\ \A x \in Handles : listeners[x] = 0

\* The ids of a sequence are strictly increasing.
Increasing(ids) == \A i, j \in 1..Len(ids) : i < j => ids[i] < ids[j]

\* C23: the ids assigned by an owner (the client, the delegate) are strictly
\* increasing, so none is used twice, and a request of one owner leaves the
\* counter of the other alone.
C23_IdsIncreasePerOwner ==
  [][ /\ \A o \in Owners : Increasing(assigned'[o])
      /\ \A o \in Owners :
           Len(assigned'[o]) > Len(assigned[o]) =>
             \A other \in Owners \ {o} : requestId'[other] = requestId[other] ]_vars

\* Both owners have numbered several requests, the delegate more than the
\* client.
C23_BothOwnersNumbered ==
  /\ assigned["client"] = <<1, 2>>
  /\ assigned["delegate"] = <<1, 2, 3>>

\* C24: when readAll() has returned and the decode function threw on the
\* buffer of a characteristic, the error was reported and the key of that
\* characteristic is absent from the map, while every readable characteristic
\* was read and every value that decoded is in the map.
C24_DecodeErrorOmitsKey ==
  ra.pc = "done" =>
    \A k \in KeySet :
      /\ ra.outcome[k] = "malformed" => k \in ra.errors /\ ra.map[k] = "absent"
      /\ canRead(k) => k \in ra.reads
      /\ ra.outcome[k] = "decoded" => ra.map[k] = "value"

\* C25: the native read is invoked on readable characteristics only, and the
\* map holds a value for a characteristic only if it is readable and its read
\* request succeeded; the value of a read that decoded is the decoded value.
C25_OnlyReadableRead ==
  \A k \in KeySet :
    /\ k \in ra.reads => "read" \in chars[k]
    /\ ra.map[k] # "absent" =>
         /\ "read" \in chars[k]
         /\ ra.outcome[k] \in {"decoded", "malformed"}
    /\ ra.outcome[k] = "decoded" => ra.map[k] = "value"

\* readAll() has returned on a service with a readable and a write-only
\* characteristic: the map holds the decoded value of the readable one, the
\* write-only one was not read.
C25_ReadableAndWriteOnly ==
  /\ ra.pc = "done"
  /\ chars["c1"] = {"read"} /\ chars["c2"] = {"write"}
  /\ ra.map["c1"] = "value" /\ ra.map["c2"] = "absent"
  /\ "c2" \notin ra.reads

----------------------------------------------------------------------------
(* Properties of the decode functions.                                     *)

\* C27: parseManufacturerData is a function of the payload, and for every
\* payload of at least 6 bytes: the protocol version is byte 2, the
\* tilt/venetian flag is the high bit of byte 3, the battery is byte 3 with
\* the high bit cleared, the positions are byte4*2 - 100 and byte5*2 - 100
\* when the flag is set (raw 0..100 lands in -100..100) and the raw bytes
\* when it is clear; byte 3 = 0x8A gives the flag set and battery 10.
C27_ManufacturerDataDecoded ==
  parsed.f = "parseManufacturerData" =>
    /\ parsed = parseManufacturerData(buffer.bytes)
    /\ Len(buffer.bytes) >= 6 =>
         LET b == buffer.bytes
             flag == b[4] \div 128 = 1
         IN /\ ~parsed.threw
            /\ parsed.advDataProtocol = b[3]
            /\ parsed.venetianMode = flag
            /\ parsed.battery = b[4] % 128
            /\ parsed.currentPosition = IF flag THEN b[5] * 2 - 100 ELSE b[5]
            /\ parsed.targetPosition = IF flag THEN b[6] * 2 - 100 ELSE b[6]
            /\ flag /\ b[5] \in 0..100 => parsed.currentPosition \in -100..100
            /\ flag /\ b[6] \in 0..100 => parsed.targetPosition \in -100..100
            /\ b[4] = 138 => parsed.venetianMode /\ parsed.battery = 10

\* The payload with battery byte 0x8A and raw positions 50 and 100 decoded.
C27_TiltShadeAtTenPercent ==
  /\ parsed.f = "parseManufacturerData" /\ ~parsed.threw
  /\ buffer.bytes[4] = 138 /\ buffer.bytes[5] = 50 /\ buffer.bytes[6] = 100
  /\ parsed.venetianMode /\ parsed.battery = 10
  /\ parsed.currentPosition = 0 /\ parsed.targetPosition = 100

\* Bit i of the mask is set.
Bit(mask, i) == (mask \div (2 ^ i)) % 2 = 1

\* The days by the number of their bit.
WeekdayNames == <<"Sun", "Mon", "Tue", "Wed", "Thu", "Fri", "Sat">>

Listed(d, ds) == \E i \in 1..Len(ds) : ds[i] = d

\* The weekday mask of the trigger record a decoded value was made from, and
\* the days decoded from it.
DecodedTrigger ==
  /\ parsed.f \in {"MotorTriggerRequest", "MotorTriggerResponse"}
  /\ ~parsed.threw
  /\ "trigger" \in DOMAIN parsed

Mask ==
  IF parsed.f = "MotorTriggerRequest" THEN buffer.bytes[8]
                                      ELSE buffer.bytes[9]

\* C29: parseTrigger decodes the weekday byte so that a mask with all seven
\* low bits set gives 'Every Day', mask 0x00 gives no days, and for every
\* other mask a day is listed iff its bit is set, bit 0 being Sunday, bit 1
\* Monday, ... bit 6 Saturday; nothing else is listed.
C29_WeekdaysDecoded ==
  DecodedTrigger =>
    LET ds == parsed.trigger.days
    IN /\ Mask % 128 = 127 => ds = <<"Every Day">>
       /\ Mask = 0 => ds = <<>>
       /\ Mask % 128 # 127 =>
            /\ \A i \in 0..6 : Listed(WeekdayNames[i + 1], ds) <=> Bit(Mask, i)
            /\ Len(ds) = Cardinality({i \in 0..6 : Bit(Mask, i)})

\* A trigger for Sunday, Tuesday, Thursday and Saturday (mask 0x55) decoded.
C29_AlternateDays ==
  /\ DecodedTrigger /\ Mask = 85
  /\ parsed.trigger.days = <<"Tue", "Thu", "Sat", "Sun">>

\* A record with a tag the decode function knows and that tag's width.
Recognized(r) == <<r[1], r[2]>> \in {<<1, 1>>, <<6, 1>>, <<12, 4>>, <<23, 8>>}

\* The value of the last record of recs with the tag and the width, if any.
Latest(recs, tag, width) ==
  LET I == {i \in 1..Len(recs) : recs[i][1] = tag /\ recs[i][2] = width}
  IN IF I = {} THEN <<>>
     ELSE LET r == recs[CHOOSE i \in I : \A j \in I : j <= i]
          IN <<SubSeq(r, 3, Len(r))>>

\* The recognized records of recs, in their order.
RecognizedOnly(recs) == SelectSeq(recs, Recognized)

\* C30: the Shade Config decode function reads a query frame as (tag,
\* length, value) records after the 2-byte header, advancing by 2 + the
\* declared length: a record with an unknown tag, or with a known tag and
\* another length than the tag's width, adds nothing, and what is decoded
\* from the recognized records is what is decoded from the frame of the
\* recognized records alone.
C30_ConfigRecordsDecoded ==
  parsed.f = "ShadeConfig" /\ buffer.bytes = Frame(buffer.records) =>
    LET recs == buffer.records
        speed == Latest(recs, 1, 1)
        boot == Latest(recs, 12, 4)
    IN /\ ~parsed.threw
       /\ parsed.motorSpeed = IF speed = <<>> THEN <<>> ELSE <<speed[1][1]>>
       /\ parsed.bootSeq =
            IF boot = <<>> THEN <<>>
            ELSE <<boot[1][1] + 256 * boot[1][2] + 65536 * boot[1][3]
                   + 16777216 * boot[1][4]>>
       /\ Latest(recs, 6, 1) = <<>> <=> parsed.localTimeOffset = <<>>
       /\ Latest(recs, 23, 8) = <<>> <=> parsed.sunrise = <<>>
       /\ Latest(recs, 23, 8) = <<>> <=> parsed.sunset = <<>>
       /\ parsed = ShadeConfig(Frame(RecognizedOnly(recs)))

\* A frame decoded in which the motor speed follows an unknown record whose
\* value reads as records, and a boot sequence of another length.
C30_SpeedAfterUnknown ==
  /\ parsed.f = "ShadeConfig" /\ ~parsed.threw
  /\ buffer.records = <<<<5, 6, 1, 1, 7, 6, 1, 2>>, <<12, 1, 9>>, <<1, 1, 5>>>>
  /\ parsed.motorSpeed = <<5>> /\ parsed.localTimeOffset = <<>>
  /\ parsed.bootSeq = <<>>

----------------------------------------------------------------------------
(* Properties of the operations of SomaPeripheral.                         *)

\* The steps of getTrigger and _getShadeConfig and how they settle.
Protocol ==
  <<"subscribe", "subscribe ok", "write", "write ok",
    "notification", "notification ok">>

\* C26: getTrigger and _getShadeConfig run their three steps in order: the
\* subscribe has completed before the write is issued (and the frame is
\* handed to it), the write has completed before the wait for the
\* notification begins, and nothing is started after a step failed.
C26_StepsInOrder ==
  soma.op # "none" =>
    /\ Len(soma.log) <= Len(Protocol)
    /\ \A i \in 1..Len(soma.log) :
         \/ soma.log[i] = Protocol[i]
         \/ /\ i = Len(soma.log) /\ i % 2 = 0
            /\ soma.log[i] = Protocol[i - 1] \o " failed"
            /\ soma.pc = "failed"
    /\ soma.written # <<>> => Len(soma.log) >= 3

\* getTrigger has subscribed, and its write has failed.
C26_WriteFailed ==
  /\ soma.op = "getTrigger" /\ soma.pc = "failed"
  /\ soma.log = <<"subscribe", "subscribe ok", "write", "write failed">>
  /\ soma.written = ReadFrame(soma.arg[1])

\* C28: setTriggerEnabled(id, enabled), once the trigger has been read,
\* writes an edit frame which the Motor Trigger Request decoder decodes to
\* the id, days, kind and value, position and morning mode of the record
\* read, with enabled as requested, built from the bytes of the response.
C28_EditRoundTrip ==
  LET read == MotorTriggerResponse(soma.response)
  IN /\ soma.op = "setTriggerEnabled" /\ soma.response # <<>>
     /\ soma.pc \in {"edit", "done", "failed"}
     /\ ~read.threw /\ "trigger" \in DOMAIN read
     /\ read.id = soma.arg[1]
     => LET edit == MotorTriggerRequest(soma.edit)
        IN /\ soma.edit # <<>>
           /\ ~edit.threw /\ edit.command = "edit"
           /\ edit.id = read.id
           /\ edit.trigger = [read.trigger EXCEPT !.enabled = soma.enabled]
           /\ SubSeq(soma.edit, 4, 9) = SubSeq(soma.response, 5, 10)

----------------------------------------------------------------------------
(* Scan restart, timeouts without a native handle.                         *)

\* C31: search() is a no-op only while a scan is active or a start-scan
\* request of this client is in flight: whenever the controller is starting
\* (so that search() returns at once) and not scanning, the start-scan
\* request is still pending; after it has failed, search() issues a new one.
C31_SearchNotBlocked ==
  startScanning /\ ~scanning => reqs["start"].status = "pending"

\* C32: when the timeout of a request issued while the delegate had no
\* native handle fires, the request is rejected with the timeout BleError
\* and the timer callback throws nothing.
C32_TimeoutOnlyRejects ==
  \A s \in Slots :
    reqs[s].scope = "peripheral" /\ ~reqs[s].periph /\ reqs[s].timer = "fired" =>
      /\ reqs[s].status = "rejected" /\ reqs[s].first = "timeout"
      /\ ~reqs[s].uncaught

\* C33: in getTrigger and _getShadeConfig no notification of the response
\* characteristic is lost: whatever the peripheral delegate emits after the
\* write request was issued finds the one-shot listener of the waiting call.
C33_NoNotificationLost == ~soma.unheard

----------------------------------------------------------------------------
(* The idle-disconnect timer.                                              *)

\* No request of the delegate is in flight and no call is running.
DelegateIdle ==
  /\ Quiet /\ call.sig = "idle"
  /\ \A s \in Slots : reqs[s].scope = "peripheral" => reqs[s].status # "pending"

\* C34: whenever the native peripheral is connected, the idle duration is
\* not 0 and no request for the peripheral is in flight, the idle-disconnect
\* timer is armed.
C34_IdleTimerArmed ==
  pstate = "connected" /\ connectionDuration # 0 /\ DelegateIdle =>
    connectionTimer

----------------------------------------------------------------------------
(* The auto-stop timer of the scan controller.                             *)

\* The 'scanStart' handler runs its body in this step.
ScanStarted == ~scanning /\ scanning'

\* The auto-stop timer fires in this step while the controller is scanning.
AutoStopFires == scanTimer /\ ~scanTimer' /\ scanning /\ scanning'

\* C36: a scan start of this client with a duration > 0 arms the auto-stop
\* timer; when the timer fires while the controller is scanning a stop-scan
\* request is issued (or one is in flight); a scan start with duration 0 or
\* of another process arms no timer; no timer is armed once scanning has
\* stopped.
C36_AutoStopTimer ==
  [][ /\ ScanStarted /\ Ours("start") /\ scanDuration > 0 => scanTimer'
      /\ ScanStarted /\ (scanDuration = 0 \/ ~Ours("start")) => ~scanTimer'
      /\ AutoStopFires =>
           \/ NewScanRequest("stop", stopScanning)
           \/ reqs["stop"].status = "pending"
      /\ ~scanning' => ~scanTimer' ]_vars

----------------------------------------------------------------------------
(* Cancelling a connect attempt.                                           *)

\* The timeout timer of the request in record s fires in this step.
TimesOut(s) == reqs[s].timer = "armed" /\ reqs'[s].timer = "fired"

\* C37: when the timeout of a request fires while its native peripheral is
\* connecting, cancelConnect() is invoked in that step, except on macOS
\* where it is not; the request is then rejected with the timeout error,
\* and stays so whatever completes later.
C37_CancelOnTimeout ==
  [][ /\ \A s \in Slots :
           /\ TimesOut(s) /\ reqs[s].scope = "peripheral" /\ reqs[s].periph
           /\ pstate = "connecting"
           => /\ "cancelConnect" \in emitted' <=> ~macOs
              /\ reqs'[s].status = "rejected" /\ reqs'[s].first = "timeout"
      /\ \A s \in Slots :
           reqs[s].timer = "fired" /\ reqs'[s].timer = "fired" =>
             /\ reqs'[s].status = reqs[s].status
             /\ reqs'[s].first = reqs[s].first ]_vars

\* The connect request has timed out while connecting and the attempt was
\* cancelled.
C37_ConnectCancelled ==
  /\ "cancelConnect" \in emitted /\ ~macOs /\ pstate = "connecting"
  /\ reqs["call"].kind = "connect" /\ reqs["call"].timer = "fired"
  /\ reqs["call"].status = "rejected" /\ reqs["call"].first = "timeout"

----------------------------------------------------------------------------
(* The idle-disconnect timers of a delegate whose connect() calls overlap. *)

\* Timers the delegate makes in a behaviour.
maxTimers == 3

\* The state outside this delegate.
exceptTimers ==
  <<programVars, idVars, readAllVars, somaVars, decodeVars, platformVars,
    serviceVars>>

\* clearTimeout(this.connectionTimer); delete this.connectionTimer
clearConnectionTimer(d) ==
  [d EXCEPT !.timers = d.timers \ {d.connectionTimer}, !.connectionTimer = 0]

\* this.connectionTimer = setTimeout(...): a new timer is pending and the
\* reference to the earlier one is overwritten.
setConnectionTimer(d) ==
  [d EXCEPT !.made = d.made + 1, !.timers = d.timers \cup {d.made + 1},
            !.connectionTimer = d.made + 1]

\* this.peripheral = null: removeAllListeners() on the native peripheral
\* takes the listeners of the pending connectAsync() with it.
dropPeripheral(d) ==
  [d EXCEPT !.peripheral = FALSE,
            !.pc = [c \in Calls |->
                      IF d.pc[c] = "connect" THEN "dead" ELSE d.pc[c]]]

\* async disconnect ()
disconnectOf(d) ==
  IF d.peripheral /\ d.state = "connected"
    THEN [d EXCEPT !.state = "disconnecting"]
    ELSE dropPeripheral(d)

\* connect() of call c from this.connectionDuration = duration on.
connectRest(d, c) ==
  LET e == [d EXCEPT !.connectionDuration = d.duration[c]]
  IN IF e.state = "connected"
       THEN [(IF e.connectionDuration # 0 THEN setConnectionTimer(e) ELSE e)
               EXCEPT !.pc[c] = "idle"]
       ELSE [e EXCEPT !.state = "connecting", !.pc[c] = "connect"]

\* async connect (duration) of call c, up to its first await.
connectOf(d, c, dur) ==
  LET e == [clearConnectionTimer(d) EXCEPT !.duration[c] = dur]
  IN IF ~e.peripheral THEN [e EXCEPT !.pc[c] = "discover"]
                      ELSE connectRest(e, c)

\* The 'discover peripheral' request of call c has resolved.
resume(d, c) == IF d.pc[c] = "discover" THEN connectRest(d, c) ELSE d

\* Calls waiting for the peripheral to be found.
Discovering == {c \in Calls : idle.pc[c] = "discover"}

\* The application starts an operation, which calls connect(dur).
OverlappingConnect(c, dur) ==
  /\ c # "auto"
  /\ idle.pc[c] = "idle"
  /\ idle.made < maxTimers
  /\ idle' = connectOf(idle, c, dur)
  /\ UNCHANGED exceptTimers

\* The client emits '_found' on the delegate: the handle is set, then the
\* calls waiting for it go on in the order their listeners were registered.
FoundAgain ==
  /\ idle.made + Cardinality(Discovering) <= maxTimers
  /\ idle' = resume(resume(resume([idle EXCEPT !.peripheral = TRUE], "a"),
                           "b"), "auto")
  /\ UNCHANGED exceptTimers

\* The request call c waits for times out.
CallTimeout(c) ==
  /\ idle.pc[c] \in {"discover", "connect", "dead"}
  /\ idle' = [idle EXCEPT !.pc[c] = "idle"]
  /\ UNCHANGED exceptTimers

\* noble emits 'connect': the handler of the delegate, if it is registered,
\* arms the timer; the pending connectAsync() promises resolve.
NativeConnected ==
  /\ idle.state = "connecting"
  /\ idle.made < maxTimers
  /\ LET d == [idle EXCEPT !.state = "connected",
                           !.pc = [c \in Calls |->
                                     IF idle.pc[c] = "connect" THEN "idle"
                                                               ELSE idle.pc[c]]]
     IN idle' = IF d.peripheral /\ d.connectionDuration # 0
                  THEN setConnectionTimer(d) ELSE d
  /\ UNCHANGED exceptTimers

\* noble emits 'connect' with an error: the handler returns.
NativeConnectFailed ==
  /\ idle.state = "connecting"
  /\ idle' = [idle EXCEPT !.state = "disconnected",
                          !.pc = [c \in Calls |->
                                    IF idle.pc[c] = "connect" THEN "idle"
                                                              ELSE idle.pc[c]]]
  /\ UNCHANGED exceptTimers

\* noble emits 'disconnect': the handler of the delegate, if it is
\* registered, clears the timer and reconnects when the duration is 0.
NativeDisconnected ==
  /\ idle.state \in {"connected", "disconnecting"}
  /\ idle.connectionDuration = 0 /\ idle.peripheral => idle.pc["auto"] = "idle"
  /\ LET d == [idle EXCEPT !.state = "disconnected"]
     IN idle' = IF ~d.peripheral THEN d
                ELSE IF d.connectionDuration = 0
                  THEN connectOf(clearConnectionTimer(d), "auto", 0)
                  ELSE clearConnectionTimer(d)
  /\ UNCHANGED exceptTimers

\* Timer t fires: this.connectionTimer = null; await this.disconnect()
IdleTimeout(t) ==
  /\ t \in idle.timers
  /\ idle' = disconnectOf([idle EXCEPT !.timers = idle.timers \ {t},
                                       !.connectionTimer = 0])
  /\ UNCHANGED exceptTimers

\* The application calls disconnect().
OverlappingDisconnect ==
  /\ idle' = disconnectOf(idle)
  /\ UNCHANGED exceptTimers

NextTimers ==
  \/ \E c \in Calls, dur \in {0, 120} : OverlappingConnect(c, dur)
  \/ FoundAgain
  \/ \E c \in Calls : CallTimeout(c)
  \/ NativeConnected \/ NativeConnectFailed \/ NativeDisconnected
  \/ \E t \in 1..maxTimers : IdleTimeout(t)
  \/ OverlappingDisconnect

InitOverlapping ==
  InitLibrary /\ InitIds /\ InitReadAll /\ InitSoma /\ InitDecode /\ InitApp

SpecTimers == InitOverlapping /\ [][NextTimers]_vars

\* C35: at most one idle-disconnect timer is pending, the one the delegate
\* holds in connectionTimer (so that it can cancel it), and a timer that
\* fires does not clear the reference to another one.
C35_OneIdleTimer ==
  [][ /\ Cardinality(idle'.timers) <= 1
      /\ idle'.timers \subseteq {idle'.connectionTimer}
      /\ \A t \in idle.timers \ idle'.timers :
           t # idle.connectionTimer =>
             idle'.connectionTimer = idle.connectionTimer ]_vars

----------------------------------------------------------------------------
(* The platform: shades found, probed and turned into accessories.         *)

\* Delegates the platform creates for one device id in a behaviour.
maxProbes == 2

\* The state outside the platform.
exceptPlatform ==
  <<programVars, idVars, readAllVars, somaVars, decodeVars, timerVars,
    serviceVars>>

\* Variant of the handler that sets no placeholder.
noPlaceholder(e) == e

\* this.shades[device.id] = { onDeviceFound: noop, heartbeat: noop }
setPlaceholder(e) == [e EXCEPT !.entry = "placeholder"]

\* const delegate = this.createDelegate(device); the probe begins.
createDelegate(e) ==
  [e EXCEPT !.probing = e.probing + 1, !.delegates = e.delegates + 1]

\* The 'shadeFound' handler for an id with the entry e in this.shades.
shadeFound(e) ==
  IF e.entry = "absent"
    THEN IF e.whitelisted THEN createDelegate(setPlaceholder(e))
                          ELSE setPlaceholder(e)
    ELSE [e EXCEPT !.during = e.during \/ e.probing > 0]

\* accessoryRestored: an accessory of the cache, before anything is found.
AccessoryRestored(id) ==
  /\ shades[id] \in {NoShade, [NoShade EXCEPT !.whitelisted = FALSE]}
  /\ shades[id].whitelisted
  /\ shades' = [shades EXCEPT ![id].entry = "accessory",
                              ![id].accessories = shades[id].accessories + 1]
  /\ UNCHANGED exceptPlatform

\* The client emits 'shadeFound' for id; inHeartbeat is this.inHeartbeat.
PlatformShadeFound(id, inHeartbeat) ==
  /\ shades[id].entry = "absent" => shades[id].delegates < maxProbes
  /\ shades' = IF inHeartbeat THEN shades
                              ELSE [shades EXCEPT ![id] = shadeFound(shades[id])]
  /\ UNCHANGED exceptPlatform

\* The three reads of the probe have resolved: the accessory is created,
\* then the finally block awaits delegate.disconnect().
ProbeResolves(id) ==
  /\ shades[id].probing > 0
  /\ shades' = [shades EXCEPT ![id].entry = "accessory",
                              ![id].accessories = shades[id].accessories + 1,
                              ![id].probing = shades[id].probing - 1,
                              ![id].closing = shades[id].closing + 1]
  /\ UNCHANGED exceptPlatform

\* A read of the probe has thrown: the back-off timer is set, then the
\* finally block awaits delegate.disconnect().
ProbeThrows(id) ==
  /\ shades[id].probing > 0
  /\ shades' = [shades EXCEPT ![id].backoff = shades[id].backoff + 1,
                              ![id].probing = shades[id].probing - 1,
                              ![id].closing = shades[id].closing + 1]
  /\ UNCHANGED exceptPlatform

\* delegate.disconnect() has settled: destroy(), removeAllListeners().
ProbeClosed(id) ==
  /\ shades[id].closing > 0
  /\ shades' = [shades EXCEPT ![id].closing = shades[id].closing - 1]
  /\ UNCHANGED exceptPlatform

\* The back-off timer fires: delete this.shades[device.id]
BackOff(id) ==
  /\ shades[id].backoff > 0
  /\ shades' = [shades EXCEPT ![id].backoff = shades[id].backoff - 1,
                              ![id].entry = "absent"]
  /\ UNCHANGED exceptPlatform

NextPlatform ==
  \/ \E id \in DeviceIds : AccessoryRestored(id)
  \/ \E id \in DeviceIds, inHeartbeat \in BOOLEAN :
       PlatformShadeFound(id, inHeartbeat)
  \/ \E id \in DeviceIds : ProbeResolves(id)
  \/ \E id \in DeviceIds : ProbeThrows(id)
  \/ \E id \in DeviceIds : ProbeClosed(id)
  \/ \E id \in DeviceIds : BackOff(id)

\* Any whitelist.
InitPlatform ==
  /\ InitLibrary /\ InitIds /\ InitReadAll /\ InitSoma /\ InitDecode
  /\ InitTimers /\ InitValues
  /\ shades \in [DeviceIds ->
                   {[NoShade EXCEPT !.whitelisted = w] : w \in BOOLEAN}]

SpecPlatform == InitPlatform /\ [][NextPlatform]_vars

\* C38: for each id at most one delegate is in its probe and at most one
\* accessory is ever created, whatever 'shadeFound' events arrive during the
\* probe: a probe begins only for an id that has no entry, and an id gets
\* rid of its entry only when the back-off timer of a failed probe fires.
C38_OneProbePerShade ==
  [][ \A id \in DeviceIds :
        /\ shades'[id].probing <= 1 /\ shades'[id].accessories <= 1
        /\ shades'[id].probing > shades[id].probing =>
             shades[id].entry = "absent"
        /\ shades[id].entry # "absent" /\ shades'[id].entry = "absent" =>
             shades'[id].backoff < shades[id].backoff
        /\ shades'[id].backoff > shades[id].backoff =>
             shades'[id].probing < shades[id].probing ]_vars

\* The accessory of a shade has been created by the second probe, after a
\* failed one, with 'shadeFound' events during a probe.
C38_ProbedAgain ==
  \E id \in DeviceIds :
    /\ shades[id].accessories = 1 /\ shades[id].delegates = 2
    /\ shades[id].during /\ shades[id].entry = "accessory"

----------------------------------------------------------------------------
(* The position of a Window Covering service: written, advertised, shown.  *)

\* The state outside the service.
exceptService ==
  <<programVars, idVars, readAllVars, somaVars, decodeVars, timerVars,
    platformVars>>

\* Times HomeKit sets the target in a behaviour.
maxTargets == 2

\* The target positions HomeKit sets: Math.round(value / 5) * 5 of 0..100.
TargetPositions == {5 * k : k \in 0..20}

\* Variant of the rounding that truncates.
truncate5(x) == (x \div 5) * 5

\* Math.round(x / 5) * 5
round5(x) == ((2 * x + 5) \div 10) * 5

\* setShadePosition: position, in % open, negative to close upwards.
signed(v) ==
  IF v.venetianMode /\ v.closeUpwards THEN 0 - (100 - v.targetPosition)
                                      ELSE 100 - v.targetPosition

\* position += 100; position /= 2; position &= 0xFF
toByte(v, position) ==
  IF v.venetianMode THEN ((position + 100) \div 2) % 256 ELSE position % 256

\* The manufacturer data a shade at the raw position advertises.
Advertisement(v, raw) ==
  <<112, 3, 3, IF v.venetianMode THEN 128 + 90 ELSE 90, raw, raw>>

\* updatePosition (position), the timer of setShadePosition not pending.
updatePosition(v, position) ==
  LET rounded == round5(position)
      up == v.venetianMode /\ rounded < 0
      down == v.venetianMode /\ rounded > 0
      hkPosition == 100 - (IF up THEN 0 - rounded ELSE rounded)
      arrived == /\ hkPosition = v.targetPosition
                 /\ ~(up \/ down) \/ (up <=> v.targetCloseUpwards)
      moving == v.moving /\ ~arrived
  IN [v EXCEPT !.position = <<position>>,
               !.currentPosition = hkPosition,
               !.closeUpwards = IF up \/ down THEN up ELSE v.closeUpwards,
               !.moving = moving,
               !.targetPosition = IF moving THEN v.targetPosition
                                            ELSE hkPosition,
               !.updated = TRUE]

\* HomeKit sets the target position and the direction: setShadePosition()
\* clears the timer and sets a new one.
SetTarget(t, c) ==
  /\ values.sets < maxTargets
  /\ values' = [values EXCEPT !.targetPosition = t, !.closeUpwards = c,
                              !.timer = "armed", !.written = <<>>,
                              !.request = NoValues.request,
                              !.updated = FALSE, !.sets = values.sets + 1]
  /\ UNCHANGED exceptService

\* The timer of setShadePosition fires; ok: setPosition() resolves. When
\* the position is the one the service holds the callback returns and the
\* timer is not deleted.
PositionTimer(ok) ==
  /\ values.timer = "armed"
  /\ LET position == signed(values)
         v == [values EXCEPT !.resetTimer = FALSE,
                             !.targetCloseUpwards =
                               IF values.venetianMode THEN values.closeUpwards
                               ELSE values.targetCloseUpwards]
     IN values' =
          IF <<position>> = v.position THEN [v EXCEPT !.timer = "fired"]
          ELSE IF ok
            THEN [v EXCEPT !.position = <<position>>, !.timer = "none",
                           !.written = <<toByte(v, position)>>,
                           !.request = [t |-> v.targetPosition,
                                        c |-> v.closeUpwards],
                           !.moving = TRUE, !.resetTimer = TRUE]
            ELSE [v EXCEPT !.position = <<position>>, !.timer = "none"]
  /\ UNCHANGED exceptService

\* resetTimer fires: this.moving = false
ResetTimer ==
  /\ values.resetTimer
  /\ values' = [values EXCEPT !.resetTimer = FALSE, !.moving = FALSE]
  /\ UNCHANGED exceptService

\* The shade, arrived at the position written, advertises it: the client
\* decodes the manufacturer data and onDeviceFound calls updatePosition.
Advertised ==
  /\ values.written # <<>>
  /\ LET data == parseManufacturerData(Advertisement(values, values.written[1]))
     IN values' = IF values.timer # "none" THEN values
                  ELSE updatePosition(values, data.currentPosition)
  /\ UNCHANGED exceptService

NextPosition ==
  \/ \E t \in TargetPositions, c \in BOOLEAN : SetTarget(t, c)
  \/ \E ok \in BOOLEAN : PositionTimer(ok)
  \/ ResetTimer
  \/ Advertised

\* A shade or a tilt device.
InitPosition ==
  /\ InitLibrary /\ InitIds /\ InitReadAll /\ InitSoma /\ InitDecode
  /\ InitTimers /\ InitShades
  /\ values \in {[NoValues EXCEPT !.venetianMode = m] : m \in BOOLEAN}

SpecPosition == InitPosition /\ [][NextPosition]_vars

\* C39: for a tilt device, once the byte written for the target position t
\* and the direction c has been advertised back and mapped by
\* updatePosition, the current position is t and, unless t is 100, the
\* direction is c.
C39_PositionRoundTrip ==
  values.venetianMode /\ values.updated =>
    /\ values.currentPosition = values.request.t
    /\ values.request.t # 100 => values.closeUpwards = values.request.c

\* A tilt device closing upwards has shown the odd position 95 written as
\* the byte 2.
C39_OddPositionShown ==
  /\ values.venetianMode /\ values.updated
  /\ values.request = [t |-> 5, c |-> TRUE] /\ values.written = <<2>>
  /\ values.currentPosition = 5 /\ values.closeUpwards

====
